---- MODULE Spec2Model ----
(***************************************************************************)
(* A model of the structural response comparator of the Gmail clone        *)
(* testing extension: ComparisonEngine (executeDual, generateDiff,         *)
(* compareObjects, compareArrays, shouldIgnoreField, getType) and the two  *)
(* API clients whose results it joins.                                     *)
(*                                                                         *)
(* JavaScript strings that the code inspects character by character        *)
(* (paths, object keys, ignore patterns) are sequences of one-character    *)
(* strings; string VALUES inside a JSON document are only compared with    *)
(* === and are TLA+ strings.                                               *)
(***************************************************************************)
EXTENDS Integers, Sequences, FiniteSets, TLC

VARIABLES
    realResponse,   \* generateDiff's first argument
    cloneResponse,  \* generateDiff's second argument
    ignoreFields,   \* generateDiff's third argument
    diff,           \* the DiffResult generateDiff returned, or NoResult
    view,           \* what renderComparisonView returned, or NoView
    wiring,         \* the clients the engine was constructed with
    now,            \* Date.now()
    call,           \* per side: where the executeRequest call stands
    fetches,        \* per side: the fetch requests issued so far
    reqStart,       \* per side: startTime of executeRequest
    reqTime,        \* per side: responseTime of executeRequest
    response,       \* per side: the Response fetch resolved with
    outcome,        \* per side: the promise executeRequest returned
    pcDual,         \* where executeDual stands
    startTime,      \* startTime of executeDual
    dualResult,     \* what executeDual returned
    dualError,      \* the message of the Error executeDual threw
    pcPanel,        \* where executeComparisonMode stands
    panelError,     \* the message handed to displayError
    clock,          \* Date.now() of the background worker, in milliseconds
    storage,        \* chrome.storage.local: the token and its expiry
    issued,         \* how many access tokens the OAuth server has issued
    pcToken,        \* per request: where getAccessToken stands
    stored,         \* per request: what chrome.storage.local.get gave it
    checkedAt,      \* per request: `now` of getAccessToken
    grant,          \* per request: the data of the refresh response
    computedAt,     \* per request: Date.now() of refreshAccessToken
    answer,         \* per request: how it ended and the token it returned
    uiComponents,   \* the module the panel imports cacheResponseData from
    responseCache   \* that module's responseCache

diffVars == <<realResponse, cloneResponse, ignoreFields, diff, view>>
clientVars == <<call, fetches, reqStart, reqTime, response, outcome>>
dualVars == <<pcDual, startTime, dualResult, dualError>>
panelVars == <<pcPanel, panelError>>
tokenVars == <<clock, storage, issued, pcToken, stored, checkedAt, grant,
               computedAt, answer>>
cacheVars == <<uiComponents, responseCache>>
vars == <<diffVars, wiring, now, clientVars, dualVars, panelVars, tokenVars,
          cacheVars>>

----------------------------------------------------------------------------
(* JSON values.  Every value is a record of one shape: k is the kind of    *)
(* the JavaScript value, n the payload of a number or boolean, s the       *)
(* payload of a string, c the children of an array or object.  A child is  *)
(* [key, val]; an array's children have the empty key and are addressed by *)
(* position, an object's children are in insertion order.                  *)

Undefined == [k |-> "undefined", n |-> 0, s |-> "", c |-> <<>>]
Null == [k |-> "null", n |-> 0, s |-> "", c |-> <<>>]
Num(x) == [k |-> "number", n |-> x, s |-> "", c |-> <<>>]
Str(x) == [k |-> "string", n |-> 0, s |-> x, c |-> <<>>]
Bool(b) == [k |-> "boolean", n |-> IF b THEN 1 ELSE 0, s |-> "", c |-> <<>>]
Arr(items) ==
    [k |-> "array", n |-> 0, s |-> "",
     c |-> [i \in 1..Len(items) |-> [key |-> <<>>, val |-> items[i]]]]
Obj(entries) == [k |-> "object", n |-> 0, s |-> "", c |-> entries]
KV(key, val) == [key |-> key, val |-> val]

\* Array.isArray(value)
IsArray(value) == value.k = "array"

\* typeof value
TypeOf(value) ==
    IF value.k \in {"null", "array", "object"} THEN "object" ELSE value.k

\* !value : the falsy values are null, undefined, 0, "" and false
Falsy(value) ==
    \/ value.k \in {"null", "undefined"}
    \/ value.k = "number" /\ value.n = 0
    \/ value.k = "string" /\ value.s = ""
    \/ value.k = "boolean" /\ value.n = 0

\* Object.keys(obj), in insertion order
ObjectKeys(obj) == [i \in 1..Len(obj.c) |-> obj.c[i].key]

\* key in obj
HasKey(obj, key) == \E i \in 1..Len(obj.c) : obj.c[i].key = key

\* obj[key] (undefined when the key is absent)
Get(obj, key) ==
    IF HasKey(obj, key)
    THEN obj.c[CHOOSE i \in 1..Len(obj.c) : obj.c[i].key = key].val
    ELSE Undefined

\* arr.length and arr[i] (i counted from 0, undefined past the end)
Length(arr) == Len(arr.c)
At(arr, i) == IF i < Len(arr.c) THEN arr.c[i + 1].val ELSE Undefined

\* seq.includes(x)
Includes(seq, x) == \E i \in 1..Len(seq) : seq[i] = x

----------------------------------------------------------------------------
(* Strings as character sequences.                                         *)

Digits == <<"0", "1", "2", "3", "4", "5", "6", "7", "8", "9">>

\* `${i}` for a non-negative integer
RECURSIVE IntToString(_)
IntToString(i) ==
    IF i < 10 THEN <<Digits[i + 1]>>
    ELSE IntToString(i \div 10) \o <<Digits[(i % 10) + 1]>>

RootPath == <<"<", "r", "o", "o", "t", ">">>
DotLength == <<".", "l", "e", "n", "g", "t", "h">>

----------------------------------------------------------------------------
(* shouldIgnoreField and the regular expression it compiles.               *)

\* pattern.replace(/\*/g, '.*')
RECURSIVE ReplaceStar(_)
ReplaceStar(pattern) ==
    IF pattern = <<>> THEN <<>>
    ELSE (IF Head(pattern) = "*" THEN <<".", "*">> ELSE <<Head(pattern)>>)
         \o ReplaceStar(Tail(pattern))

\* One atom of the regular expression against one character: '.' is any
\* character, every other character of the modelled alphabet is itself.
AtomMatches(atom, ch) == atom = "." \/ atom = ch

\* new RegExp('^' + re + '$').test(str), for re over literals, '.' and a
\* postfix '*': does re from position i match str from position j to its end
RECURSIVE RegexMatchFrom(_, _, _, _)
RegexMatchFrom(re, i, str, j) ==
    IF i > Len(re) THEN j > Len(str)
    ELSE IF i < Len(re) /\ re[i + 1] = "*"
    THEN \/ RegexMatchFrom(re, i + 2, str, j)
         \/ /\ j <= Len(str)
            /\ AtomMatches(re[i], str[j])
            /\ RegexMatchFrom(re, i, str, j + 1)
    ELSE /\ j <= Len(str)
         /\ AtomMatches(re[i], str[j])
         /\ RegexMatchFrom(re, i + 1, str, j + 1)

RegexTest(re, str) == RegexMatchFrom(re, 1, str, 1)

\* (a variant that matches full paths and patterns only, not bare names)
shouldIgnoreField_PathOnly(fullPath, fieldName, ignore) ==
    \/ Includes(ignore, fullPath)
    \/ \E i \in 1..Len(ignore) :
          /\ Includes(ignore[i], "*")
          /\ RegexTest(ReplaceStar(ignore[i]), fullPath)

\* (a variant that matches bare names only)
shouldIgnoreField_NameOnly(fullPath, fieldName, ignore) ==
    Includes(ignore, fieldName)

shouldIgnoreField(fullPath, fieldName, ignore) ==
    \/ Includes(ignore, fieldName)
    \/ Includes(ignore, fullPath)
    \/ \E i \in 1..Len(ignore) :
          /\ Includes(ignore[i], "*")
          /\ RegexTest(ReplaceStar(ignore[i]), fullPath)

----------------------------------------------------------------------------
(* getType, compareObjects, compareArrays, generateDiff.                   *)

getType(value) ==
    IF value = Null THEN "null"
    ELSE IF value = Undefined THEN "undefined"
    ELSE IF IsArray(value) THEN "array"
    ELSE TypeOf(value)

\* (a variant that gives every record the severity 'high')
DiffRecord_AllHigh(path, type, real, clone, severity, message) ==
    [path |-> path, type |-> type, real |-> real, clone |-> clone,
     severity |-> "high", message |-> message]

DiffRecord(path, type, real, clone, severity, message) ==
    [path |-> path, type |-> type, real |-> real, clone |-> clone,
     severity |-> severity, message |-> message]

\* new Set([...Object.keys(realObj), ...Object.keys(cloneObj)]) in iteration
\* order: real's keys, then clone's keys that real does not have
\* (with a variant that visits the real object's keys only)
AllKeys_RealOnly(realObj, cloneObj) == ObjectKeys(realObj)

\* (and a variant that visits the first key only)
AllKeys_FirstOnly(realObj, cloneObj) ==
    SelectSeq(ObjectKeys(realObj) \o ObjectKeys(cloneObj),
              LAMBDA key : key = Head(ObjectKeys(realObj)
                                          \o ObjectKeys(cloneObj)))

\* (and a variant that visits the clone's keys first)
AllKeys_CloneFirst(realObj, cloneObj) ==
    ObjectKeys(cloneObj)
    \o SelectSeq(ObjectKeys(realObj), LAMBDA key : ~HasKey(cloneObj, key))

AllKeys(realObj, cloneObj) ==
    ObjectKeys(realObj)
    \o SelectSeq(ObjectKeys(cloneObj), LAMBDA key : ~HasKey(realObj, key))

\* path ? `${path}.${key}` : key
KeyPath(path, key) == IF path # <<>> THEN path \o <<".">> \o key ELSE key

\* `${path}[${i}]`
ElementPath(path, i) == path \o <<"[">> \o IntToString(i) \o <<"]">>

\* path || '<root>'
PathOrRoot(path) == IF path # <<>> THEN path ELSE RootPath

\* Math.max(a, b) (and a variant that takes the smaller)
Max_AsMin(a, b) == IF a < b THEN a ELSE b
Max(a, b) == IF a > b THEN a ELSE b

\* realObj !== cloneObj on two primitives of one type (and a variant with
\* the comparison turned around)
NotStrictEqual_Flipped(a, b) == a = b
NotStrictEqual(a, b) == a # b

RECURSIVE compareObjects(_, _, _, _)
RECURSIVE CompareKeys(_, _, _, _, _)
RECURSIVE CompareElements(_, _, _, _, _)

\* the body of compareObjects' loop "for (const key of allKeys)", from the
\* keys still to visit
CompareKeys(realObj, cloneObj, path, ignore, keys) ==
    IF keys = <<>> THEN <<>>
    ELSE LET key == Head(keys)
             currentPath == KeyPath(path, key)
             realValue == Get(realObj, key)
             cloneValue == Get(cloneObj, key)
             here ==
                 IF shouldIgnoreField(currentPath, key, ignore) THEN <<>>
                 ELSE IF ~HasKey(realObj, key)
                 THEN <<DiffRecord(currentPath, "missing_in_real", Undefined,
                                   cloneValue, "medium",
                                   <<"Missing in Real: ">> \o key)>>
                 ELSE IF ~HasKey(cloneObj, key)
                 THEN <<DiffRecord(currentPath, "missing_in_clone", realValue,
                                   Undefined, "medium",
                                   <<"Missing in Clone: ">> \o key)>>
                 ELSE compareObjects(realValue, cloneValue, currentPath, ignore)
         IN  here \o CompareKeys(realObj, cloneObj, path, ignore, Tail(keys))

\* the body of compareArrays' loop "for (let i = 0; i < maxLength; i++)",
\* from index i
CompareElements(realArr, cloneArr, path, ignore, i) ==
    IF i >= Max(Length(realArr), Length(cloneArr)) THEN <<>>
    ELSE LET elementPath == ElementPath(path, i)
             realElement == At(realArr, i)
             cloneElement == At(cloneArr, i)
             here ==
                 IF i >= Length(realArr)
                 THEN <<DiffRecord(elementPath, "missing_in_real", Undefined,
                                   cloneElement, "medium",
                                   <<"Element missing in Real at index ">>
                                       \o IntToString(i))>>
                 ELSE IF i >= Length(cloneArr)
                 THEN <<DiffRecord(elementPath, "missing_in_clone", realElement,
                                   Undefined, "medium",
                                   <<"Element missing in Clone at index ">>
                                       \o IntToString(i))>>
                 ELSE compareObjects(realElement, cloneElement, elementPath,
                                     ignore)
         IN  here \o CompareElements(realArr, cloneArr, path, ignore, i + 1)

\* (a variant that compares the elements without comparing the lengths)
compareArrays_ElementsOnly(realArr, cloneArr, path, ignore) ==
    CompareElements(realArr, cloneArr, path, ignore, 0)

compareArrays(realArr, cloneArr, path, ignore) ==
    (IF Length(realArr) # Length(cloneArr)
     THEN <<DiffRecord(path \o DotLength, "array_length_mismatch",
                       Num(Length(realArr)), Num(Length(cloneArr)), "medium",
                       <<"Array length mismatch: ">>
                           \o IntToString(Length(realArr)) \o <<" vs ">>
                           \o IntToString(Length(cloneArr)))>>
     ELSE <<>>)
    \o CompareElements(realArr, cloneArr, path, ignore, 0)

compareObjects(realObj, cloneObj, path, ignore) ==
    LET realType == getType(realObj)
        cloneType == getType(cloneObj)
    IN  IF realType # cloneType
        THEN <<DiffRecord(PathOrRoot(path), "type_mismatch", realObj, cloneObj,
                          "high",
                          <<"Type mismatch: ", realType, " vs ", cloneType>>)>>
        ELSE IF IsArray(realObj)
        THEN compareArrays(realObj, cloneObj, path, ignore)
        ELSE IF realType = "object"
        THEN CompareKeys(realObj, cloneObj, path, ignore,
                         AllKeys(realObj, cloneObj))
        ELSE IF NotStrictEqual(realObj, cloneObj)
        THEN <<DiffRecord(PathOrRoot(path), "value_mismatch", realObj, cloneObj,
                          "high", <<"Value mismatch">>)>>
        ELSE <<>>

\* the record of generateDiff's second early return has no message
NoMessage == <<>>

\* (a variant whose summary lists the paths from the last record to the first)
DiffResult_PathsReversed(differences) ==
    [hasDifferences |-> Len(differences) > 0,
     summary |-> [count |-> Len(differences),
                  paths |-> [i \in 1..Len(differences) |->
                                differences[Len(differences) + 1 - i].path]],
     details |-> differences]

DiffResult(differences) ==
    [hasDifferences |-> Len(differences) > 0,
     summary |-> [count |-> Len(differences),
                  paths |-> [i \in 1..Len(differences) |-> differences[i].path]],
     details |-> differences]

generateDiff(real, clone, ignore) ==
    IF Falsy(real) /\ Falsy(clone)
    THEN [hasDifferences |-> FALSE,
          summary |-> [count |-> 0, paths |-> <<>>],
          details |-> <<>>]
    ELSE IF Falsy(real) \/ Falsy(clone)
    THEN [hasDifferences |-> TRUE,
          summary |-> [count |-> 1, paths |-> <<RootPath>>],
          details |-> <<DiffRecord(RootPath, "missing_response", real, clone,
                                   "high", NoMessage)>>]
    ELSE DiffResult(compareObjects(real, clone, <<>>, ignore))

----------------------------------------------------------------------------
(* The inputs the checks range over.                                       *)

ID == <<"i", "d">>
KeyA == <<"a">>
StarDotId == <<"*", ".", "i", "d">>
PathAId == <<"a", ".", "i", "d">>

DEFAULT_IGNORE_FIELDS ==
    << <<"i", "d">>,
       <<"l", "a", "b", "e", "l", "I", "d">>,
       <<"t", "h", "r", "e", "a", "d", "I", "d">>,
       <<"m", "e", "s", "s", "a", "g", "e", "I", "d">>,
       <<"h", "i", "s", "t", "o", "r", "y", "I", "d">>,
       <<"i", "n", "t", "e", "r", "n", "a", "l", "D", "a", "t", "e">>,
       <<"s", "i", "z", "e", "E", "s", "t", "i", "m", "a", "t", "e">> >>

\* the longest array of leaves
MaxLen == 2

SeqsUpTo(S, n) == UNION {[1..m -> S] : m \in 0..n}

\* values a response may be as a whole
Prims ==
    {Undefined, Null, Num(0), Num(1), Str(""), Str("1"), Bool(FALSE), Bool(TRUE)}

\* values below the root
Leaves == {Null, Num(1), Num(2), Str("1")}
InnerLeaves == {Num(1), Num(2)}

KeySeqs == {<<>>, <<ID>>, <<KeyA>>, <<ID, KeyA>>, <<KeyA, ID>>}

ObjectsOver(keySeqs, values) ==
    UNION {{Obj([i \in 1..Len(ks) |-> KV(ks[i], vals[i])]) :
                vals \in [1..Len(ks) -> values]} : ks \in keySeqs}

FlatArrays == {Arr(items) : items \in SeqsUpTo(Leaves, MaxLen)}
FlatObjects == ObjectsOver(KeySeqs, Leaves)
Inner ==
    {Arr(items) : items \in SeqsUpTo(InnerLeaves, 1)}
    \cup ObjectsOver({<<>>, <<ID>>, <<KeyA>>}, InnerLeaves)
Nested ==
    {Arr(<<x>>) : x \in Inner}
    \cup {Obj(<<KV(key, x)>>) : key \in {ID, KeyA}, x \in Inner}

\* the documents of the engine's test suite and of the specification's examples
KeyItems == <<"i", "t", "e", "m", "s">>
KeyUser == <<"u", "s", "e", "r">>
KeyName == <<"n", "a", "m", "e">>
KeyAge == <<"a", "g", "e">>
KeyProfile == <<"p", "r", "o", "f", "i", "l", "e">>
KeyItem == <<"i", "t", "e", "m">>
KeyX == <<"x">>
PathItemsLength == KeyItems \o <<".", "l", "e", "n", "g", "t", "h">>
PathItems2 == KeyItems \o <<"[", "2", "]">>
PathUserAge == KeyUser \o <<".">> \o KeyAge

ItemsAB == Obj(<<KV(KeyItems, Arr(<<Str("a"), Str("b")>>))>>)
ItemsABC == Obj(<<KV(KeyItems, Arr(<<Str("a"), Str("b"), Str("c")>>))>>)
UserAged(age) ==
    Obj(<<KV(KeyUser, Obj(<<KV(KeyName, Str("Alice")), KV(KeyAge, Num(age))>>))>>)
UserIds(a, b, c) ==
    Obj(<<KV(KeyUser, Obj(<<KV(ID, Str(a)),
                            KV(KeyProfile, Obj(<<KV(ID, Str(b))>>))>>)),
          KV(KeyItem, Obj(<<KV(ID, Str(c))>>))>>)
XOne == Obj(<<KV(KeyX, Num(1))>>)
XArrayOne == Obj(<<KV(KeyX, Arr(<<Num(1)>>))>>)

\* an array, or a value of another kind, two keys down
UserItems(items) == Obj(<<KV(KeyUser, Obj(<<KV(KeyItems, items)>>))>>)

\* a key whose name ends in 'id' without being 'id'
KeyValid == <<"v", "a", "l", "i", "d">>
Valid(value) == Obj(<<KV(KeyValid, value)>>)

\* a message with a field of the default ignore list and another field
KeyInternalDate == <<"i", "n", "t", "e", "r", "n", "a", "l", "D", "a", "t", "e">>
Dated(date, a) == Obj(<<KV(KeyInternalDate, Num(date)), KV(KeyA, Num(a))>>)

Examples ==
    {ItemsAB, ItemsABC, UserAged(30), UserAged(31), UserIds("1", "10", "2"),
     UserIds("99", "88", "77"), XOne, XArrayOne,
     UserItems(Arr(<<Num(1)>>)), UserItems(Num(1)),
     Valid(Num(1)), Valid(Num(2)), Dated(1, 1), Dated(2, 2)}

Docs == Prims \cup FlatArrays \cup FlatObjects \cup Nested \cup Examples

IgnoreLists ==
    {<<>>, <<ID>>, <<StarDotId>>, <<PathAId>>, <<ID, StarDotId>>,
     DEFAULT_IGNORE_FIELDS}

NoResult == [hasDifferences |-> FALSE,
             summary |-> [count |-> -1, paths |-> <<>>],
             details |-> <<>>]

----------------------------------------------------------------------------
(* The renderer: renderComparisonView, renderDiffSummary,                  *)
(* highlightJsonWithDiff, getDiffClassForPath, formatDiffDetails.  The     *)
(* HTML it returns is modelled by what it holds: the status text and list  *)
(* items of the summary, and for each side the spans of the highlighted    *)
(* JSON in document order, each with the path it was looked up under and   *)
(* its CSS class.                                                          *)

\* str.lastIndexOf(ch) as a position from 1, 0 when ch does not occur
LastIndexOf(str, ch) ==
    IF \E i \in 1..Len(str) : str[i] = ch
    THEN CHOOSE i \in 1..Len(str) :
             /\ str[i] = ch
             /\ \A j \in (i + 1)..Len(str) : str[j] # ch
    ELSE 0

\* str.indexOf(ch) as a position from 1, 0 when ch does not occur
IndexOf(str, ch) ==
    IF \E i \in 1..Len(str) : str[i] = ch
    THEN CHOOSE i \in 1..Len(str) :
             /\ str[i] = ch
             /\ \A j \in 1..(i - 1) : str[j] # ch
    ELSE 0

\* path.split('.').pop().split('[')[0]
FieldNameOf(path) ==
    LET last == SubSeq(path, LastIndexOf(path, ".") + 1, Len(path))
    IN  IF IndexOf(last, "[") = 0 THEN last
        ELSE SubSeq(last, 1, IndexOf(last, "[") - 1)

ignoredPatterns ==
    << <<"i", "d">>,
       <<"l", "a", "b", "e", "l", "I", "d">>,
       <<"t", "h", "r", "e", "a", "d", "I", "d">>,
       <<"m", "e", "s", "s", "a", "g", "e", "I", "d">>,
       <<"h", "i", "s", "t", "o", "r", "y", "I", "d">> >>

isIgnoredField(path, diffResult) == Includes(ignoredPatterns, FieldNameOf(path))

\* the immediate parent path getDiffClassForPath extracts
ParentPath(path) ==
    IF Includes(path, ".") THEN SubSeq(path, 1, LastIndexOf(path, ".") - 1)
    ELSE IF Includes(path, "[") THEN SubSeq(path, 1, LastIndexOf(path, "[") - 1)
    ELSE <<>>

\* diff.details.find(d => d.path === path): the position of the first such
\* record, 0 when there is none
FindPath(details, path) ==
    IF \E i \in 1..Len(details) : details[i].path = path
    THEN CHOOSE i \in 1..Len(details) :
             /\ details[i].path = path
             /\ \A j \in 1..(i - 1) : details[j].path # path
    ELSE 0

\* (a variant that classifies a missing key the same on both sides)
getDiffClassForPath_BothSides(diffResult, path, mode) ==
    IF FindPath(diffResult.details, path) # 0 THEN "diff-mismatch" ELSE ""

getDiffClassForPath(diffResult, path, mode) ==
    LET details == diffResult.details
        found == FindPath(details, path)
        parent == FindPath(details, ParentPath(path))
        root == FindPath(details, RootPath)
    IN  IF found # 0
        THEN CASE details[found].type \in
                      {"value_mismatch", "type_mismatch", "array_length_mismatch"}
                      -> "diff-mismatch"
               [] details[found].type = "missing_in_real"
                      -> IF mode = "clone" THEN "diff-mismatch" ELSE ""
               [] details[found].type = "missing_in_clone"
                      -> IF mode = "real" THEN "diff-mismatch" ELSE ""
               [] OTHER -> ""
        ELSE IF isIgnoredField(path, diffResult) THEN "diff-ignored"
        ELSE IF diffResult.hasDifferences /\ path # <<>>
        THEN IF parent # 0 /\ details[parent].type = "type_mismatch"
             THEN "diff-mismatch"
             ELSE IF root # 0 /\ details[root].type = "type_mismatch"
             THEN "diff-mismatch"
             ELSE "diff-match"
        ELSE ""

\* a <span class="..."> of the highlighted JSON
Span(path, class) == [path |-> path, class |-> class]

\* path ? `${path}.${key}` : key
ValuePath(path, key) == IF path # <<>> THEN path \o <<".">> \o key ELSE key

\* path ? `${path}[${index}]` : `[${index}]`
ItemPath(path, index) ==
    IF path # <<>> THEN path \o <<"[">> \o IntToString(index) \o <<"]">>
    ELSE <<"[">> \o IntToString(index) \o <<"]">>

RECURSIVE highlightJsonWithDiff(_, _, _, _)
RECURSIVE HighlightChildren(_, _, _, _, _)

\* jsonObj.map(...) over an array's items, keys.map(...) over an object's
\* keys, from child i
HighlightChildren(jsonObj, diffResult, mode, path, i) ==
    IF i > Len(jsonObj.c) THEN <<>>
    ELSE (IF IsArray(jsonObj)
          THEN highlightJsonWithDiff(jsonObj.c[i].val, diffResult, mode,
                                     ItemPath(path, i - 1))
          ELSE LET valuePath == ValuePath(path, jsonObj.c[i].key)
               IN  <<Span(valuePath,
                          getDiffClassForPath(diffResult, valuePath, mode))>>
                   \o highlightJsonWithDiff(jsonObj.c[i].val, diffResult, mode,
                                            valuePath))
         \o HighlightChildren(jsonObj, diffResult, mode, path, i + 1)

highlightJsonWithDiff(jsonObj, diffResult, mode, path) ==
    IF jsonObj = Null \/ jsonObj = Undefined
    THEN <<Span(path, getDiffClassForPath(diffResult, path, mode))>>
    ELSE IF IsArray(jsonObj) \/ TypeOf(jsonObj) = "object"
    THEN HighlightChildren(jsonObj, diffResult, mode, path, 1)
    ELSE <<Span(path, getDiffClassForPath(diffResult, path, mode))>>

\* The text formatDiffMessage returns: its fixed wording, and the values and
\* the message of the record that it interpolates.
DiffMessage(wording, real, clone, message) ==
    [wording |-> wording, real |-> real, clone |-> clone, message |-> message]

formatDiffMessage(d) ==
    CASE d.type = "value_mismatch"
             -> DiffMessage("Real=\"_\" vs Clone=\"_\"", d.real, d.clone, <<>>)
      [] d.type = "type_mismatch"
             -> DiffMessage("Type mismatch (_)", Undefined, Undefined, d.message)
      [] d.type = "missing_in_real"
             -> DiffMessage("Missing in Real (Clone has: _)", Undefined, d.clone,
                            <<>>)
      [] d.type = "missing_in_clone"
             -> DiffMessage("Missing in Clone (Real has: _)", d.real, Undefined,
                            <<>>)
      [] d.type = "array_length_mismatch"
             -> DiffMessage("Array length: Real[_] vs Clone[_]", d.real, d.clone,
                            <<>>)
      [] OTHER
             -> IF d.message # <<>>
                THEN DiffMessage("_", Undefined, Undefined, d.message)
                ELSE DiffMessage("Unknown difference", Undefined, Undefined, <<>>)

\* an <li> of the summary: how it is styled, the path and the message
ListItem(style, d) ==
    [style |-> style, path |-> d.path, message |-> formatDiffMessage(d)]

\* details.filter(d => d.severity === severity), each as a list item
ItemsOfSeverity(details, severity, style) ==
    LET group == SelectSeq(details, LAMBDA d : d.severity = severity)
    IN  [i \in 1..Len(group) |-> ListItem(style, group[i])]

\* (a variant that lists the medium records first)
formatDiffDetails_MediumFirst(details) ==
    ItemsOfSeverity(details, "medium", "plain")
    \o ItemsOfSeverity(details, "high", "strong")
    \o ItemsOfSeverity(details, "low", "grey")

formatDiffDetails(details) ==
    ItemsOfSeverity(details, "high", "strong")
    \o ItemsOfSeverity(details, "medium", "plain")
    \o ItemsOfSeverity(details, "low", "grey")

ResponsesMatch ==
    <<"R", "e", "s", "p", "o", "n", "s", "e", "s", " ", "M", "a", "t", "c", "h">>

\* `${count} Difference${count !== 1 ? 's' : ''} Found`
DifferencesFound(count) ==
    IntToString(count)
    \o <<" ", "D", "i", "f", "f", "e", "r", "e", "n", "c", "e">>
    \o (IF count # 1 THEN <<"s">> ELSE <<>>)
    \o <<" ", "F", "o", "u", "n", "d">>

renderDiffSummary(diffResult) ==
    LET isMatch == ~diffResult.hasDifferences
    IN  [statusClass |-> IF isMatch THEN "match" ELSE "mismatch",
         statusText |-> IF isMatch THEN ResponsesMatch
                        ELSE DifferencesFound(diffResult.summary.count),
         items |-> IF ~isMatch /\ Len(diffResult.details) > 0
                   THEN formatDiffDetails(diffResult.details)
                   ELSE <<>>]

\* renderComparisonView(realResult, cloneResult, diff), of the two bodies
renderComparisonView(realBody, cloneBody, diffResult) ==
    [rendered |-> TRUE,
     summary |-> renderDiffSummary(diffResult),
     real |-> highlightJsonWithDiff(realBody, diffResult, "real", <<>>),
     clone |-> highlightJsonWithDiff(cloneBody, diffResult, "clone", <<>>)]

NoView ==
    [rendered |-> FALSE,
     summary |-> [statusClass |-> "", statusText |-> <<>>, items |-> <<>>],
     real |-> <<>>,
     clone |-> <<>>]

----------------------------------------------------------------------------
(* The API clients and executeDual.                                        *)

Sides == {"real", "clone"}
Other(side) == IF side = "real" THEN "clone" ELSE "real"

\* the latest time of the clock
MaxNow == 2

\* the object executeRequest resolves with
Result(status, body, error, responseTime) ==
    [status |-> status, body |-> body, error |-> error,
     responseTime |-> responseTime]

KeyMessage == <<"m", "e", "s", "s", "a", "g", "e">>
MessageBody(text) == Obj(<<KV(KeyMessage, Str(text))>>)

\* What fetch may resolve with: the status, whether the content-length
\* header is '0', the content-type header, and the text of the body.
Response(status, lengthZero, contentType, text) ==
    [status |-> status, lengthZero |-> lengthZero, contentType |-> contentType,
     text |-> text]

NoResponse == Response(0, FALSE, "", "")

JsonTexts == {"null", "0", "false", "\"\"", "{}", "{\"a\":1}", "{\"a\":2}", "[1]"}
BadJsonText == "<html>"

Responses ==
    {Response(200, FALSE, "application/json", text) :
        text \in JsonTexts \cup {"", BadJsonText}}
    \cup {Response(204, FALSE, "", ""),
          Response(200, TRUE, "application/json", ""),
          Response(404, FALSE, "application/json", "{}"),
          Response(200, FALSE, "text/plain", "ok"),
          Response(200, FALSE, "text/plain", ""),
          Response(500, FALSE, "", BadJsonText)}

\* JSON.parse(text) for the texts above; it throws on any other text
JsonValid(text) == text \in JsonTexts
JsonParse(text) ==
    CASE text = "null" -> Null
      [] text = "0" -> Num(0)
      [] text = "false" -> Bool(FALSE)
      [] text = "\"\"" -> Str("")
      [] text = "{}" -> Obj(<<>>)
      [] text = "{\"a\":1}" -> Obj(<<KV(KeyA, Num(1))>>)
      [] text = "{\"a\":2}" -> Obj(<<KV(KeyA, Num(2))>>)
      [] text = "[1]" -> Arr(<<Num(1)>>)

\* contentType && contentType.includes('application/json')
IsJsonType(contentType) == contentType = "application/json"

\* a promise: pending, fulfilled with a value, or rejected with a message
Pending == [state |-> "pending", value |-> Result(Null, Null, Null, 0),
            reason |-> ""]
Fulfilled(value) == [state |-> "fulfilled", value |-> value, reason |-> ""]
Rejected(reason) ==
    [state |-> "rejected", value |-> Result(Null, Null, Null, 0),
     reason |-> reason]

\* the return of executeRequest's try block
Returned(status, body, responseTime) ==
    Fulfilled(Result(Num(status), body, Null, responseTime))

\* executeRequest's catch block: the error becomes a result, not a rejection
\* (and a variant that throws it again)
Caught_Rethrown(message) == Rejected(message)
Caught(message) == Fulfilled(Result(Null, Null, Str(message), 0))

\* the parse of a response that is neither 204 nor of content-length 0
ParsedBody(resp) ==
    IF IsJsonType(resp.contentType)
    THEN IF resp.text # "" THEN JsonParse(resp.text)
         ELSE MessageBody("Success - Empty response")
    ELSE IF resp.text # "" THEN Str(resp.text)
         ELSE MessageBody("Success - No content")

ParseThrows(resp) ==
    IsJsonType(resp.contentType) /\ resp.text # "" /\ ~JsonValid(resp.text)

\* what a client that is not one of the two Gmail clients may resolve with
\* (the mock clients of the engine's tests resolve with results like these)
InjectedResults ==
    {Result(Num(200), Obj(<<KV(KeyA, Num(1))>>), Null, 0),
     Result(Num(200), Obj(<<KV(KeyA, Num(2))>>), Null, 0),
     Result(Null, Null, Str("down"), 0)}

\* the message of the Error executeDual's catch block throws
\* (and a variant that throws the original message)
DualError_Unwrapped(message) == <<message>>
DualError(message) == <<"Dual execution failed: ", message>>

\* the message of the error an injected client's promise is rejected with
RejectReason(side) == IF side = "real" THEN "real down" ELSE "clone down"

NoDualResult ==
    [real |-> Result(Null, Null, Null, 0), clone |-> Result(Null, Null, Null, 0),
     dualDuration |-> -1]

\* Promise reactions run before the next event: executeDual resumes as soon
\* as Promise.all settles, executeComparisonMode as soon as executeDual does.
AllSettles ==
    \/ \E side \in Sides : outcome[side].state = "rejected"
    \/ \A side \in Sides : outcome[side].state = "fulfilled"

MicrotaskPending ==
    \/ pcDual = "awaiting" /\ AllSettles
    \/ pcPanel = "awaitDual" /\ pcDual \in {"returned", "thrown"}

IdleClients ==
    /\ now = 0
    /\ call = [side \in Sides |-> "idle"]
    /\ fetches = [side \in Sides |-> 0]
    /\ reqStart = [side \in Sides |-> 0]
    /\ reqTime = [side \in Sides |-> 0]
    /\ response = [side \in Sides |-> NoResponse]
    /\ outcome = [side \in Sides |-> Pending]
    /\ pcDual = "idle"
    /\ startTime = 0
    /\ dualResult = NoDualResult
    /\ dualError = <<>>
    /\ pcPanel = "idle"
    /\ panelError = <<>>

----------------------------------------------------------------------------
(* The response cache of the panel: responseCache, cacheResponseData and   *)
(* the read of getCachedSuggestions.  The repository holds two modules     *)
(* that export them: ui-components.js beside panel.js, with one cache, and *)
(* a second module with one cache per mode.                                *)

Shared == "ui-components.js"
PerMode == "part_002"
Modules == {Shared, PerMode}

ResourceTypes == {"labels", "threads", "messages", "drafts"}

KeyLabels == <<"l", "a", "b", "e", "l", "s">>
KeyThreads == <<"t", "h", "r", "e", "a", "d", "s">>
KeyMessages == <<"m", "e", "s", "s", "a", "g", "e", "s">>
KeyDrafts == <<"d", "r", "a", "f", "t", "s">>

KeyOf(resourceType) ==
    CASE resourceType = "labels" -> KeyLabels
      [] resourceType = "threads" -> KeyThreads
      [] resourceType = "messages" -> KeyMessages
      [] resourceType = "drafts" -> KeyDrafts

\* { labels: [], threads: [], messages: [], drafts: [], lastUpdated: null }
EmptyCache ==
    [labels |-> Arr(<<>>), threads |-> Arr(<<>>), messages |-> Arr(<<>>),
     drafts |-> Arr(<<>>), lastUpdated |-> Null]

\* responseCache as the module declares it
InitialCache(module) ==
    IF module = Shared THEN EmptyCache
    ELSE [real |-> EmptyCache, clone |-> EmptyCache]

\* data.labels, data.threads, ... (undefined unless data is an object with
\* the key)
Prop(data, key) == IF data.k = "object" THEN Get(data, key) ELSE Undefined

\* if (data.<type>) { cache.<type> = data.<type>; cache.lastUpdated = Date.now() }
CacheOne(entry, data, resourceType, t) ==
    IF ~Falsy(Prop(data, KeyOf(resourceType)))
    THEN [entry EXCEPT ![resourceType] = Prop(data, KeyOf(resourceType)),
                       !.lastUpdated = Num(t)]
    ELSE entry

\* the four ifs of cacheResponseData, in their order
CacheAll(entry, data, t) ==
    CacheOne(CacheOne(CacheOne(CacheOne(entry, data, "labels", t),
                               data, "threads", t),
                      data, "messages", t),
             data, "drafts", t)

\* the mode a module with one cache per mode works on: a mode it has no
\* cache for defaults to 'real'
ModeOrReal(mode) == IF mode \in {"real", "clone"} THEN mode ELSE "real"

\* cacheResponseData(data, mode), of the module the panel imports; the
\* module with one cache has no mode parameter and drops the argument
cacheResponseData(module, cache, data, mode, t) ==
    IF module = Shared
    THEN CacheAll(cache, data, t)
    ELSE [cache EXCEPT ![ModeOrReal(mode)] =
                           CacheAll(cache[ModeOrReal(mode)], data, t)]

\* getCachedSuggestions(resourceType, mode): const cached = ...
Cached(module, cache, resourceType, mode) ==
    IF module = Shared
    THEN cache[resourceType]
    ELSE cache[ModeOrReal(mode)][resourceType]

\* status >= 200 && status < 300
StatusOk(status) == status.k = "number" /\ status.n >= 200 /\ status.n < 300

\* if (result.status >= 200 && result.status < 300 && result.body)
\*     cacheResponseData(result.body, mode)
CacheIfOk(module, cache, result, mode, t) ==
    IF StatusOk(result.status) /\ ~Falsy(result.body)
    THEN cacheResponseData(module, cache, result.body, mode, t)
    ELSE cache

\* executeComparisonMode caches the real response, then the clone response
CacheComparison(module, cache, result, t) ==
    CacheIfOk(module, CacheIfOk(module, cache, result.real, "real", t),
              result.clone, "clone", t)

\* the panel beside ui-components.js imports that module
IdleCache ==
    /\ uiComponents = Shared
    /\ responseCache = InitialCache(Shared)

----------------------------------------------------------------------------
(* The OAuth token manager of the background worker: getAccessToken and    *)
(* refreshAccessToken, run once per GET_ACCESS_TOKEN message.  Every await *)
(* is a point where the clock may advance and another request may run.     *)
(* Times are in milliseconds; a token is the number of its issue, 0 stands *)
(* for a value chrome.storage.local does not hold.                         *)

Requests == {1, 2}

\* 5 * 60 * 1000
FiveMinutes == 5 * 60 * 1000

\* data.expires_in || 3600
DefaultExpiresIn == 3600

\* the clock advances in steps of five minutes, this many times at most
MaxClock == 3

\* the OAuth server issues this many tokens at most
MaxIssued == 2

NoStored == [token |-> 0, expiry |-> 0]

\* the data of a refresh response: access_token, and expires_in if present
Grant(token, hasExpiresIn, expiresIn) ==
    [access_token |-> token, hasExpiresIn |-> hasExpiresIn,
     expires_in |-> expiresIn]

NoGrant == Grant(0, FALSE, 0)

\* the lifetimes, in seconds, the server grants
ExpiresIns == {600, 900}

NoAnswer == [via |-> "none", token |-> 0]

\* stored[TOKEN_STORAGE_KEY] && stored[TOKEN_EXPIRY_KEY]
\*     && expiryTime - now > 5 * 60 * 1000
\* (and a variant without the five minutes)
UseCached_NoBuffer(storedValue, nowMs) ==
    /\ storedValue.token # 0
    /\ storedValue.expiry # 0
    /\ storedValue.expiry - nowMs > 0

UseCached(storedValue, nowMs) ==
    /\ storedValue.token # 0
    /\ storedValue.expiry # 0
    /\ storedValue.expiry - nowMs > FiveMinutes

\* Date.now() + (expiresIn * 1000), with expiresIn = data.expires_in || 3600
ExpiryTime(data, nowMs) ==
    LET expiresIn == IF data.hasExpiresIn /\ data.expires_in # 0
                     THEN data.expires_in
                     ELSE DefaultExpiresIn
    IN  nowMs + (expiresIn * 1000)

IdleTokenManager ==
    /\ clock = 0
    /\ storage = NoStored
    /\ issued = 0
    /\ pcToken = [r \in Requests |-> "idle"]
    /\ stored = [r \in Requests |-> NoStored]
    /\ checkedAt = [r \in Requests |-> 0]
    /\ grant = [r \in Requests |-> NoGrant]
    /\ computedAt = [r \in Requests |-> 0]
    /\ answer = [r \in Requests |-> NoAnswer]

\* the worker starts with nothing stored, or with the token of an earlier
\* session that expires in 5, 10 or 15 minutes
InitToken ==
    /\ realResponse = Undefined
    /\ cloneResponse = Undefined
    /\ ignoreFields = <<>>
    /\ diff = NoResult
    /\ view = NoView
    /\ wiring = "none"
    /\ IdleClients
    /\ IdleCache
    /\ clock = 0
    /\ \/ storage = NoStored /\ issued = 0
       \/ /\ \E n \in 1..3 : storage = [token |-> 1, expiry |-> n * FiveMinutes]
          /\ issued = 1
    /\ pcToken = [r \in Requests |-> "idle"]
    /\ stored = [r \in Requests |-> NoStored]
    /\ checkedAt = [r \in Requests |-> 0]
    /\ grant = [r \in Requests |-> NoGrant]
    /\ computedAt = [r \in Requests |-> 0]
    /\ answer = [r \in Requests |-> NoAnswer]

otherVars == <<diffVars, wiring, now, clientVars, dualVars, panelVars,
               cacheVars>>

ClockTick ==
    /\ clock < MaxClock * FiveMinutes
    /\ clock' = clock + FiveMinutes
    /\ UNCHANGED <<storage, issued, pcToken, stored, checkedAt, grant,
                   computedAt, answer, otherVars>>

\* a GET_ACCESS_TOKEN message: getAccessToken runs up to
\* await chrome.storage.local.get
GetAccessTokenMessage(r) ==
    /\ pcToken[r] = "idle"
    /\ pcToken' = [pcToken EXCEPT ![r] = "get"]
    /\ stored' = [stored EXCEPT ![r] = NoStored]
    /\ checkedAt' = [checkedAt EXCEPT ![r] = 0]
    /\ grant' = [grant EXCEPT ![r] = NoGrant]
    /\ computedAt' = [computedAt EXCEPT ![r] = 0]
    /\ answer' = [answer EXCEPT ![r] = NoAnswer]
    /\ UNCHANGED <<clock, storage, issued, otherVars>>

\* chrome.storage.local reads the two keys
StorageRead(r) ==
    /\ pcToken[r] = "get"
    /\ pcToken' = [pcToken EXCEPT ![r] = "got"]
    /\ stored' = [stored EXCEPT ![r] = storage]
    /\ UNCHANGED <<clock, storage, issued, checkedAt, grant, computedAt, answer,
                   otherVars>>

\* getAccessToken resumes: the cached token is returned, or
\* refreshAccessToken is called and runs up to await fetch
CheckCache(r) ==
    /\ pcToken[r] = "got"
    /\ checkedAt' = [checkedAt EXCEPT ![r] = clock]
    /\ IF UseCached(stored[r], clock)
       THEN /\ pcToken' = [pcToken EXCEPT ![r] = "done"]
            /\ answer' = [answer EXCEPT ![r] =
                              [via |-> "cache", token |-> stored[r].token]]
       ELSE /\ pcToken' = [pcToken EXCEPT ![r] = "fetch"]
            /\ answer' = answer
    /\ UNCHANGED <<clock, storage, issued, stored, grant, computedAt, otherVars>>

\* what both catch blocks make of an error: getAccessToken rejects
RefreshThrows(r) ==
    /\ pcToken' = [pcToken EXCEPT ![r] = "done"]
    /\ answer' = [answer EXCEPT ![r] = [via |-> "error", token |-> 0]]

\* fetch rejects
RefreshFetchFails(r) ==
    /\ pcToken[r] = "fetch"
    /\ RefreshThrows(r)
    /\ UNCHANGED <<clock, storage, issued, stored, checkedAt, grant, computedAt,
                   otherVars>>

\* fetch resolves: with !response.ok the error text is awaited, else the json
RefreshFetchResolves(r, ok) ==
    /\ pcToken[r] = "fetch"
    /\ pcToken' = [pcToken EXCEPT ![r] = IF ok THEN "json" ELSE "errorText"]
    /\ UNCHANGED <<clock, storage, issued, stored, checkedAt, grant, computedAt,
                   answer, otherVars>>

\* response.text() settles and the error is thrown
RefreshErrorText(r) ==
    /\ pcToken[r] = "errorText"
    /\ RefreshThrows(r)
    /\ UNCHANGED <<clock, storage, issued, stored, checkedAt, grant, computedAt,
                   otherVars>>

\* response.json() rejects, or its data has no access_token
RefreshNoToken(r) ==
    /\ pcToken[r] = "json"
    /\ RefreshThrows(r)
    /\ UNCHANGED <<clock, storage, issued, stored, checkedAt, grant, computedAt,
                   otherVars>>

\* response.json() resolves with a new token: the expiry is computed and
\* chrome.storage.local.set is awaited
RefreshJson(r, hasExpiresIn, expiresIn) ==
    /\ pcToken[r] = "json"
    /\ issued < MaxIssued
    /\ issued' = issued + 1
    /\ grant' = [grant EXCEPT ![r] = Grant(issued + 1, hasExpiresIn, expiresIn)]
    /\ computedAt' = [computedAt EXCEPT ![r] = clock]
    /\ pcToken' = [pcToken EXCEPT ![r] = "set"]
    /\ UNCHANGED <<clock, storage, stored, checkedAt, answer, otherVars>>

\* chrome.storage.local.set writes the two keys and refreshAccessToken
\* returns the new token
StorageSet(r) ==
    /\ pcToken[r] = "set"
    /\ storage' = [token |-> grant[r].access_token,
                   expiry |-> ExpiryTime(grant[r], computedAt[r])]
    /\ pcToken' = [pcToken EXCEPT ![r] = "done"]
    /\ answer' = [answer EXCEPT ![r] =
                      [via |-> "refresh", token |-> grant[r].access_token]]
    /\ UNCHANGED <<clock, issued, stored, checkedAt, grant, computedAt,
                   otherVars>>

\* sendResponse: the request is over
SendResponse(r) ==
    /\ pcToken[r] = "done"
    /\ pcToken' = [pcToken EXCEPT ![r] = "idle"]
    /\ UNCHANGED <<clock, storage, issued, stored, checkedAt, grant, computedAt,
                   answer, otherVars>>

NextToken ==
    \/ ClockTick
    \/ \E r \in Requests : GetAccessTokenMessage(r)
    \/ \E r \in Requests : StorageRead(r)
    \/ \E r \in Requests : CheckCache(r)
    \/ \E r \in Requests : RefreshFetchFails(r)
    \/ \E r \in Requests : \E ok \in BOOLEAN : RefreshFetchResolves(r, ok)
    \/ \E r \in Requests : RefreshErrorText(r)
    \/ \E r \in Requests : RefreshNoToken(r)
    \/ \E r \in Requests :
          \/ RefreshJson(r, FALSE, 0)
          \/ \E expiresIn \in ExpiresIns : RefreshJson(r, TRUE, expiresIn)
    \/ \E r \in Requests : StorageSet(r)
    \/ \E r \in Requests : SendResponse(r)

SpecToken == InitToken /\ [][NextToken]_vars

----------------------------------------------------------------------------
(* The comparator as a state machine: a call of generateDiff on any inputs. *)

InitDiff ==
    /\ realResponse \in Docs
    /\ cloneResponse \in Docs
    /\ ignoreFields \in IgnoreLists
    /\ diff = NoResult
    /\ view = NoView
    /\ wiring = "none"
    /\ IdleClients
    /\ IdleTokenManager
    /\ IdleCache

GenerateDiff ==
    /\ diff = NoResult
    /\ diff' = generateDiff(realResponse, cloneResponse, ignoreFields)
    /\ UNCHANGED <<realResponse, cloneResponse, ignoreFields, view>>
    /\ UNCHANGED <<wiring, tokenVars, cacheVars,
                   now, clientVars, dualVars, panelVars>>

\* the comparison view of the two documents and their diff
RenderComparisonView ==
    /\ diff # NoResult
    /\ view = NoView
    /\ view' = renderComparisonView(realResponse, cloneResponse, diff)
    /\ UNCHANGED <<realResponse, cloneResponse, ignoreFields, diff>>
    /\ UNCHANGED <<wiring, tokenVars, cacheVars,
                   now, clientVars, dualVars, panelVars>>

NextDiff == GenerateDiff \/ RenderComparisonView

SpecDiff == InitDiff /\ [][NextDiff]_vars

----------------------------------------------------------------------------
(* The summary as a state machine: a call of renderDiffSummary on a        *)
(* DiffResult whose records have any of the three severities.              *)

\* the longest list of records handed to renderDiffSummary
MaxDetails == 3

SummaryRecords ==
    {DiffRecord(path, type, Num(1), Num(2), severity, <<"Value mismatch">>) :
        path \in {KeyA, ID},
        type \in {"value_mismatch", "missing_in_real"},
        severity \in {"high", "medium", "low"}}

InitSummary ==
    /\ realResponse = Undefined
    /\ cloneResponse = Undefined
    /\ ignoreFields = <<>>
    /\ diff \in {DiffResult(details) : details \in SeqsUpTo(SummaryRecords, MaxDetails)}
    /\ view = NoView
    /\ wiring = "none"
    /\ IdleClients
    /\ IdleTokenManager
    /\ IdleCache

RenderDiffSummary ==
    /\ view = NoView
    /\ view' = [NoView EXCEPT !.rendered = TRUE,
                              !.summary = renderDiffSummary(diff)]
    /\ UNCHANGED <<realResponse, cloneResponse, ignoreFields, diff>>
    /\ UNCHANGED <<wiring, tokenVars, cacheVars,
                   now, clientVars, dualVars, panelVars>>

NextSummary == RenderDiffSummary

SpecSummary == InitSummary /\ [][NextSummary]_vars

----------------------------------------------------------------------------
(* Comparison mode as a state machine: executeComparisonMode calls         *)
(* executeDual, which calls executeRequest on both clients and awaits      *)
(* Promise.all of the two promises; each await is a point where another    *)
(* callback may run.  The engine is wired to the two Gmail clients (as the *)
(* panel does) or to two clients injected by its caller.                   *)

InitDual ==
    /\ realResponse = Undefined
    /\ cloneResponse = Undefined
    /\ ignoreFields = <<>>
    /\ diff = NoResult
    /\ view = NoView
    /\ wiring \in {"gmail", "injected"}
    /\ IdleClients
    /\ IdleTokenManager
    /\ IdleCache

\* the call of `side` ends at `pc` and its promise settles
Settle(side, pc, result) ==
    /\ call' = [call EXCEPT ![side] = pc]
    /\ outcome' = [outcome EXCEPT ![side] = result]

\* executeComparisonMode finds a required parameter missing
ValidationFails ==
    /\ pcPanel = "idle"
    /\ pcPanel' = "error"
    /\ panelError' = <<"Missing required parameters">>
    /\ UNCHANGED <<diffVars, wiring, tokenVars, cacheVars,
                   now, clientVars, dualVars>>

\* executeComparisonMode calls executeDual, which calls the real client's
\* executeRequest (it runs up to its await of the token) and then the
\* clone client's (it runs up to its await of fetch), and awaits both
ExecuteDual ==
    /\ pcPanel = "idle"
    /\ pcPanel' = "awaitDual"
    /\ pcDual' = "awaiting"
    /\ startTime' = now
    /\ IF wiring = "gmail"
       THEN /\ call' = [real |-> "token", clone |-> "fetch"]
            /\ fetches' = [real |-> 0, clone |-> 1]
            /\ reqStart' = [reqStart EXCEPT !["clone"] = now]
       ELSE /\ call' = [side \in Sides |-> "injected"]
            /\ UNCHANGED <<fetches, reqStart>>
    /\ UNCHANGED <<diffVars, wiring, tokenVars, cacheVars,
                   now, reqTime, response, outcome,
                   dualResult, dualError, panelError>>

Tick ==
    /\ ~MicrotaskPending
    /\ now < MaxNow
    /\ now' = now + 1
    /\ UNCHANGED <<diffVars, wiring, tokenVars, cacheVars,
                   clientVars, dualVars, panelVars>>

\* the background worker answers GET_ACCESS_TOKEN with a token
TokenArrives ==
    /\ ~MicrotaskPending
    /\ call["real"] = "token"
    /\ call' = [call EXCEPT !["real"] = "fetch"]
    /\ fetches' = [fetches EXCEPT !["real"] = @ + 1]
    /\ reqStart' = [reqStart EXCEPT !["real"] = now]
    /\ UNCHANGED <<diffVars, wiring, tokenVars, cacheVars,
                   now, reqTime, response, outcome,
                   dualVars, panelVars>>

\* the background worker answers with an error, or the message fails
TokenFails ==
    /\ ~MicrotaskPending
    /\ call["real"] = "token"
    /\ Settle("real", "caught", Caught("No token"))
    /\ UNCHANGED <<diffVars, wiring, tokenVars, cacheVars,
                   now, fetches, reqStart, reqTime,
                   response, dualVars, panelVars>>

\* fetch rejects
FetchFails(side) ==
    /\ ~MicrotaskPending
    /\ call[side] = "fetch"
    /\ Settle(side, "caught", Caught("Failed to fetch"))
    /\ UNCHANGED <<diffVars, wiring, tokenVars, cacheVars,
                   now, fetches, reqStart, reqTime,
                   response, dualVars, panelVars>>

\* fetch resolves with a response: a 204 or an empty one is returned at
\* once, any other waits for response.text()
FetchResolves(side, resp) ==
    /\ ~MicrotaskPending
    /\ call[side] = "fetch"
    /\ response' = [response EXCEPT ![side] = resp]
    /\ reqTime' = [reqTime EXCEPT ![side] = now - reqStart[side]]
    /\ IF resp.status = 204 \/ resp.lengthZero
       THEN Settle(side, "returned",
                   Returned(resp.status,
                            MessageBody("Success - No content returned"),
                            now - reqStart[side]))
       ELSE /\ call' = [call EXCEPT ![side] = "text"]
            /\ outcome' = outcome
    /\ UNCHANGED <<diffVars, wiring, tokenVars, cacheVars,
                   now, fetches, reqStart, dualVars,
                   panelVars>>

\* response.text() resolves: the body is parsed and returned, or JSON.parse
\* throws
TextResolves(side) ==
    /\ ~MicrotaskPending
    /\ call[side] = "text"
    /\ IF ParseThrows(response[side])
       THEN Settle(side, "caught", Caught("Unexpected token"))
       ELSE Settle(side, "returned",
                   Returned(response[side].status, ParsedBody(response[side]),
                            reqTime[side]))
    /\ UNCHANGED <<diffVars, wiring, tokenVars, cacheVars,
                   now, fetches, reqStart, reqTime,
                   response, dualVars, panelVars>>

\* response.text() rejects
TextFails(side) ==
    /\ ~MicrotaskPending
    /\ call[side] = "text"
    /\ Settle(side, "caught", Caught("Failed to read body"))
    /\ UNCHANGED <<diffVars, wiring, tokenVars, cacheVars,
                   now, fetches, reqStart, reqTime,
                   response, dualVars, panelVars>>

\* an injected client's promise is fulfilled, or rejected
InjectedResolves(side, result) ==
    /\ ~MicrotaskPending
    /\ call[side] = "injected"
    /\ Settle(side, "resolved", Fulfilled(result))
    /\ UNCHANGED <<diffVars, wiring, tokenVars, cacheVars,
                   now, fetches, reqStart, reqTime,
                   response, dualVars, panelVars>>

InjectedRejects(side) ==
    /\ ~MicrotaskPending
    /\ call[side] = "injected"
    /\ Settle(side, "rejected", Rejected(RejectReason(side)))
    /\ UNCHANGED <<diffVars, wiring, tokenVars, cacheVars,
                   now, fetches, reqStart, reqTime,
                   response, dualVars, panelVars>>

\* Promise.all is fulfilled: executeDual returns the DualResult
DualReturns ==
    /\ pcDual = "awaiting"
    /\ \A side \in Sides : outcome[side].state = "fulfilled"
    /\ pcDual' = "returned"
    /\ dualResult' = [real |-> outcome["real"].value,
                      clone |-> outcome["clone"].value,
                      dualDuration |-> now - startTime]
    /\ UNCHANGED <<diffVars, wiring, tokenVars, cacheVars,
                   now, clientVars, startTime, dualError,
                   panelVars>>

\* Promise.all is rejected: executeDual throws the wrapped error
DualThrows ==
    /\ pcDual = "awaiting"
    /\ \E side \in Sides :
          /\ outcome[side].state = "rejected"
          /\ dualError' = DualError(outcome[side].reason)
    /\ pcDual' = "thrown"
    /\ UNCHANGED <<diffVars, wiring, tokenVars, cacheVars,
                   now, clientVars, startTime, dualResult,
                   panelVars>>

\* executeComparisonMode after executeDual returned: the diff of the two
\* bodies under the default ignore list, then the rendering
ComparisonDiff ==
    /\ pcPanel = "awaitDual"
    /\ pcDual = "returned"
    /\ realResponse' = dualResult.real.body
    /\ cloneResponse' = dualResult.clone.body
    /\ ignoreFields' = DEFAULT_IGNORE_FIELDS
    /\ diff' = generateDiff(dualResult.real.body, dualResult.clone.body,
                            DEFAULT_IGNORE_FIELDS)
    /\ view' = renderComparisonView(dualResult.real.body,
                                    dualResult.clone.body, diff')
    /\ pcPanel' = "rendered"
    /\ responseCache' = CacheComparison(uiComponents, responseCache,
                                        dualResult, now)
    /\ UNCHANGED <<wiring, tokenVars, uiComponents, now, clientVars, dualVars,
                   panelError>>

\* executeComparisonMode's catch
ComparisonCatch ==
    /\ pcPanel = "awaitDual"
    /\ pcDual = "thrown"
    /\ pcPanel' = "error"
    /\ panelError' = dualError
    /\ UNCHANGED <<diffVars, wiring, tokenVars, cacheVars,
                   now, clientVars, dualVars>>

NextDual ==
    \/ ValidationFails
    \/ ExecuteDual
    \/ Tick
    \/ TokenArrives
    \/ TokenFails
    \/ \E side \in Sides : FetchFails(side)
    \/ \E side \in Sides : \E resp \in Responses : FetchResolves(side, resp)
    \/ \E side \in Sides : TextResolves(side)
    \/ \E side \in Sides : TextFails(side)
    \/ \E side \in Sides : \E result \in InjectedResults :
          InjectedResolves(side, result)
    \/ \E side \in Sides : InjectedRejects(side)
    \/ DualReturns
    \/ DualThrows
    \/ ComparisonDiff
    \/ ComparisonCatch

SpecDual == InitDual /\ [][NextDual]_vars

----------------------------------------------------------------------------
(* Notions the properties are stated with; none of them is used by the     *)
(* model of the code above.                                                *)

Done == diff # NoResult

Absent(value) == value.k \in {"null", "undefined"}
IsContainer(value) == value.k \in {"array", "object"}
KeySet(obj) == {obj.c[i].key : i \in 1..Len(obj.c)}
Min(a, b) == IF a < b THEN a ELSE b

\* the two values are the same JSON value (object key order aside)
RECURSIVE DeepEqual(_, _)
DeepEqual(a, b) ==
    /\ a.k = b.k
    /\ IF a.k = "array"
       THEN /\ Len(a.c) = Len(b.c)
            /\ \A i \in 1..Len(a.c) : DeepEqual(a.c[i].val, b.c[i].val)
       ELSE IF a.k = "object"
       THEN /\ KeySet(a) = KeySet(b)
            /\ \A key \in KeySet(a) : DeepEqual(Get(a, key), Get(b, key))
       ELSE a = b

\* q addresses a node strictly below the node p addresses
IsBelow(p, q) ==
    /\ Len(q) > Len(p)
    /\ SubSeq(q, 1, Len(p)) = p
    /\ q[Len(p) + 1] \in {".", "["}

\* the records of a diff with a given path
RecordsAt(result, path) ==
    {i \in 1..Len(result.details) : result.details[i].path = path}

\* An ignore entry with a wildcard, read as the specification reads it
\* ('*' stands for any string, '.' for any one character, the rest for
\* itself, the whole path matched), without compiling anything.
RECURSIVE WildMatch(_, _)
WildMatch(pattern, str) ==
    IF pattern = <<>> THEN str = <<>>
    ELSE IF Head(pattern) = "*"
    THEN \E n \in 0..Len(str) :
            WildMatch(Tail(pattern), SubSeq(str, n + 1, Len(str)))
    ELSE /\ str # <<>>
         /\ Head(pattern) = "." \/ Head(pattern) = Head(str)
         /\ WildMatch(Tail(pattern), Tail(str))

\* entry e of an ignore list ignores the key fieldName at fullPath
EntryIgnores(e, fullPath, fieldName) ==
    \/ e = fieldName
    \/ e = fullPath
    \/ (\E i \in 1..Len(e) : e[i] = "*") /\ WildMatch(e, fullPath)

ListIgnores(ignore, fullPath, fieldName) ==
    \E i \in 1..Len(ignore) : EntryIgnores(ignore[i], fullPath, fieldName)

\* the value with every ignored key (and all below it) taken out
RECURSIVE Strip(_, _, _)
Strip(value, path, ignore) ==
    IF value.k = "array"
    THEN Arr([i \in 1..Len(value.c) |->
                 Strip(value.c[i].val, ElementPath(path, i - 1), ignore)])
    ELSE IF value.k = "object"
    THEN LET kept == SelectSeq(value.c, LAMBDA e :
                        ~ListIgnores(ignore, KeyPath(path, e.key), e.key))
         IN  Obj([i \in 1..Len(kept) |->
                     KV(kept[i].key,
                        Strip(kept[i].val, KeyPath(path, kept[i].key), ignore))])
    ELSE value

\* the keys (full path, name) at which two values differ
RECURSIVE DifferingKeys(_, _, _)
DifferingKeys(a, b, path) ==
    IF a.k = "object" /\ b.k = "object"
    THEN UNION {
           IF HasKey(a, key) /\ HasKey(b, key)
           THEN IF DeepEqual(Get(a, key), Get(b, key)) THEN {}
                ELSE {<<KeyPath(path, key), key>>}
                     \cup DifferingKeys(Get(a, key), Get(b, key),
                                        KeyPath(path, key))
           ELSE {<<KeyPath(path, key), key>>} : key \in KeySet(a) \cup KeySet(b)}
    ELSE IF a.k = "array" /\ b.k = "array"
    THEN UNION {DifferingKeys(At(a, i), At(b, i), ElementPath(path, i)) :
                   i \in 0..(Min(Length(a), Length(b)) - 1)}
    ELSE {}

\* the ignore list without the entries that ignore a key where a and b differ
WithoutResponsible(ignore, a, b) ==
    SelectSeq(ignore, LAMBDA e :
        ~\E pk \in DifferingKeys(a, b, <<>>) : EntryIgnores(e, pk[1], pk[2]))

\* a and b differ, and only at keys the list ignores
DifferOnlyAtIgnored(a, b, ignore) ==
    /\ ~DeepEqual(a, b)
    /\ DeepEqual(Strip(a, <<>>, ignore), Strip(b, <<>>, ignore))

----------------------------------------------------------------------------
(* C1. Reflexivity: generateDiff(v, v, ignore) has hasDifferences = false, *)
(* summary.count = 0 and no details, for every value v and ignore list.    *)
Thm_C1_Reflexive ==
    (Done /\ realResponse = cloneResponse)
        => /\ diff.hasDifferences = FALSE
           /\ diff.summary.count = 0
           /\ diff.details = <<>>

Wit_C1_Reflexive ==
    /\ Done
    /\ realResponse = cloneResponse
    /\ realResponse \in Nested
    /\ ignoreFields = <<>>

(* C2. Ignore suppression: when a and b differ, and only at keys the       *)
(* ignore list ignores (by bare name at any depth, by full path or by      *)
(* wildcard), generateDiff reports no difference; with the entries that    *)
(* ignore those keys removed from the list it reports one.                 *)
Thm_C2_IgnoreSuppression ==
    (Done /\ DifferOnlyAtIgnored(realResponse, cloneResponse, ignoreFields))
        => /\ diff.hasDifferences = FALSE
           /\ generateDiff(realResponse, cloneResponse,
                           WithoutResponsible(ignoreFields, realResponse,
                                              cloneResponse)).hasDifferences

Wit_C2_IgnoreSuppression ==
    /\ Done
    /\ DifferOnlyAtIgnored(realResponse, cloneResponse, ignoreFields)
    /\ ignoreFields = <<ID>>
    /\ realResponse.k = "array"
    /\ diff.hasDifferences = FALSE

(* C3. Root edge policy: both sides null/undefined give no differences;    *)
(* exactly one side null/undefined gives one missing_response record at    *)
(* '<root>' with severity high; every other pair of values, the falsy 0,   *)
(* false and "" included, gives compareObjects(real, clone, '', ignore).   *)
Claim_C3_RootPolicy ==
    Done =>
        IF Absent(realResponse) /\ Absent(cloneResponse)
        THEN diff.hasDifferences = FALSE /\ diff.details = <<>>
        ELSE IF Absent(realResponse) \/ Absent(cloneResponse)
        THEN /\ Len(diff.details) = 1
             /\ diff.details[1].path = RootPath
             /\ diff.details[1].type = "missing_response"
             /\ diff.details[1].severity = "high"
        ELSE diff = DiffResult(compareObjects(realResponse, cloneResponse,
                                              <<>>, ignoreFields))

\* the paths (empty for the root) at which the comparison of a and b meets
\* two values of different kinds
RECURSIVE KindMismatchPaths(_, _, _, _)
KindMismatchPaths(a, b, path, ignore) ==
    IF a.k # b.k THEN {path}
    ELSE IF a.k = "array"
    THEN UNION {KindMismatchPaths(At(a, i), At(b, i), ElementPath(path, i),
                                  ignore) :
                   i \in 0..(Min(Length(a), Length(b)) - 1)}
    ELSE IF a.k = "object"
    THEN UNION {KindMismatchPaths(Get(a, key), Get(b, key), KeyPath(path, key),
                                  ignore) :
                   key \in {x \in KeySet(a) \cap KeySet(b) :
                               ~ListIgnores(ignore, KeyPath(path, x), x)}}
    ELSE {}

(* C4. Type-mismatch short-circuit: wherever the compared values have      *)
(* different kinds, the diff has exactly one record at that path ('<root>' *)
(* for the root), of type type_mismatch, and no record below that path.    *)
\* The root is compared when neither response is null or undefined.
Claim_C4_TypeMismatch ==
    (Done /\ ~Absent(realResponse) /\ ~Absent(cloneResponse)) =>
        \A p \in KindMismatchPaths(realResponse, cloneResponse, <<>>,
                                   ignoreFields) :
            /\ Cardinality(RecordsAt(diff, PathOrRoot(p))) = 1
            /\ \A i \in RecordsAt(diff, PathOrRoot(p)) :
                  diff.details[i].type = "type_mismatch"
            /\ \A i \in 1..Len(diff.details) :
                  IF p = <<>> THEN diff.details[i].path = RootPath
                  ELSE ~IsBelow(p, diff.details[i].path)

\* a and b have one shape and differ in exactly one primitive leaf, of one
\* primitive type on both sides
RECURSIVE OneLeafDiff(_, _)
OneLeafDiff(a, b) ==
    /\ a.k = b.k
    /\ IF a.k = "array"
       THEN /\ Len(a.c) = Len(b.c)
            /\ \E i \in 1..Len(a.c) :
                  /\ OneLeafDiff(a.c[i].val, b.c[i].val)
                  /\ \A j \in 1..Len(a.c) \ {i} :
                        DeepEqual(a.c[j].val, b.c[j].val)
       ELSE IF a.k = "object"
       THEN /\ KeySet(a) = KeySet(b)
            /\ \E key \in KeySet(a) :
                  /\ OneLeafDiff(Get(a, key), Get(b, key))
                  /\ \A other \in KeySet(a) \ {key} :
                        DeepEqual(Get(a, other), Get(b, other))
       ELSE a.k \in {"number", "string", "boolean"} /\ a # b

\* for such a and b: the address of the leaf ('.key' for a key, no dot at
\* the root, '[i]' for an index), its two values, and whether a key on the
\* way to it is ignored
RECURSIVE TheLeaf(_, _, _, _, _)
TheLeaf(a, b, path, ignore, skipped) ==
    IF a.k = "array"
    THEN LET i == CHOOSE x \in 1..Len(a.c) : ~DeepEqual(a.c[x].val, b.c[x].val)
         IN  TheLeaf(a.c[i].val, b.c[i].val,
                     path \o <<"[">> \o IntToString(i - 1) \o <<"]">>,
                     ignore, skipped)
    ELSE IF a.k = "object"
    THEN LET key == CHOOSE x \in KeySet(a) : ~DeepEqual(Get(a, x), Get(b, x))
             at == IF path = <<>> THEN key ELSE path \o <<".">> \o key
         IN  TheLeaf(Get(a, key), Get(b, key), at, ignore,
                     skipped \/ ListIgnores(ignore, at, key))
    ELSE [path |-> path, real |-> a, clone |-> b, skipped |-> skipped]

(* C5. Single-leaf value mismatch: for any two documents of one shape     *)
(* that differ in exactly one primitive leaf of one type, not ignored, the *)
(* diff is exactly one record: value_mismatch, severity high, real and     *)
(* clone the two leaf values, path the address of the leaf (written        *)
(* '<root>' when the document is the leaf itself).                         *)
Claim_C5_SingleLeaf ==
    (/\ Done
     /\ OneLeafDiff(realResponse, cloneResponse)
     /\ ~TheLeaf(realResponse, cloneResponse, <<>>, ignoreFields, FALSE).skipped)
        => LET leaf == TheLeaf(realResponse, cloneResponse, <<>>,
                               ignoreFields, FALSE)
           IN  /\ Len(diff.details) = 1
               /\ diff.details[1].type = "value_mismatch"
               /\ diff.details[1].severity = "high"
               /\ diff.details[1].real = leaf.real
               /\ diff.details[1].clone = leaf.clone
               /\ diff.details[1].path =
                      IF leaf.path = <<>> THEN RootPath ELSE leaf.path

(* C6. generateDiff({items:['a','b']}, {items:['a','b','c']}, []) has      *)
(* exactly two records: an array_length_mismatch at 'items.length' with    *)
(* real 2 and clone 3, and a record at 'items[2]'.                         *)
ArrayLengthExample ==
    /\ Done
    /\ realResponse = ItemsAB
    /\ cloneResponse = ItemsABC
    /\ ignoreFields = <<>>

ArrayLengthExampleRecords(typeAtIndex2) ==
    /\ diff.hasDifferences
    /\ Len(diff.details) = 2
    /\ \E i \in 1..2 :
          /\ diff.details[i].path = PathItemsLength
          /\ diff.details[i].type = "array_length_mismatch"
          /\ diff.details[i].real = Num(2)
          /\ diff.details[i].clone = Num(3)
    /\ \E i \in 1..2 :
          /\ diff.details[i].path = PathItems2
          /\ diff.details[i].type = typeAtIndex2

\* as claimed: the record at 'items[2]' is of type missing_in_clone
Claim_C6_ArrayLength ==
    ArrayLengthExample => ArrayLengthExampleRecords("missing_in_clone")

\* as the code has it: the element the real array lacks is missing_in_real
Thm_C6_ArrayLength ==
    ArrayLengthExample =>
        /\ ArrayLengthExampleRecords("missing_in_real")
        /\ \A i \in 1..2 : diff.details[i].type # "missing_in_clone"

Wit_C6_ArrayLength == ArrayLengthExample /\ diff.summary.count = 2

\* a and b are the same but for the values of the fields named 'id'
RECURSIVE SameButIdValues(_, _)
SameButIdValues(a, b) ==
    /\ a.k = b.k
    /\ IF a.k = "array"
       THEN /\ Len(a.c) = Len(b.c)
            /\ \A i \in 1..Len(a.c) : SameButIdValues(a.c[i].val, b.c[i].val)
       ELSE IF a.k = "object"
       THEN /\ KeySet(a) = KeySet(b)
            /\ \A key \in KeySet(a) \ {ID} :
                  SameButIdValues(Get(a, key), Get(b, key))
       ELSE a = b

(* C7. Wildcard ignore: with ignoreFields = ['*.id'], two documents that   *)
(* differ only in the values of fields named 'id', at the top level or     *)
(* nested, have no differences.                                            *)
Claim_C7_WildcardId ==
    (/\ Done
     /\ ignoreFields = <<StarDotId>>
     /\ SameButIdValues(realResponse, cloneResponse))
        => diff.hasDifferences = FALSE

----------------------------------------------------------------------------
(* SpecCache: the panel's handlers from the point where the API calls      *)
(* returned, over bounded results, with either module loaded.  The handler *)
(* of comparison mode diffs, renders and caches the two responses; the     *)
(* handler of the single mode displays and caches one, under the site mode *)
(* of the panel.                                                           *)

\* an item of a List response
Item(id) == Obj(<<KV(ID, Str(id))>>)

ListBody(key, ids) == Obj(<<KV(key, Arr([i \in 1..Len(ids) |-> Item(ids[i])]))>>)

CacheBodies ==
    {ListBody(KeyLabels, <<"L1">>), ListBody(KeyLabels, <<"L2">>),
     ListBody(KeyThreads, <<"T1">>)}

CacheResults ==
    {Result(Num(200), body, Null, 0) : body \in CacheBodies}
        \cup {Result(Null, Null, Str("Failed to fetch"), 0)}

\* this.siteMode: null until initializePanel(site, sessionId) sets it
SiteModes == {"real", "clone", "null"}

InitCache ==
    /\ realResponse = Undefined
    /\ cloneResponse = Undefined
    /\ ignoreFields = <<>>
    /\ diff = NoResult
    /\ view = NoView
    /\ wiring = "gmail"
    /\ IdleClients
    /\ IdleTokenManager
    /\ uiComponents \in Modules
    /\ responseCache = InitialCache(uiComponents)

\* executeComparisonMode from the return of executeDual on: generateDiff,
\* renderComparisonView, then the two cacheResponseData calls
ComparisonReturned(result) ==
    /\ pcPanel \in {"idle", "rendered", "error"}
    /\ dualResult' = result
    /\ pcDual' = "returned"
    /\ realResponse' = result.real.body
    /\ cloneResponse' = result.clone.body
    /\ ignoreFields' = DEFAULT_IGNORE_FIELDS
    /\ diff' = generateDiff(result.real.body, result.clone.body,
                            DEFAULT_IGNORE_FIELDS)
    /\ view' = renderComparisonView(result.real.body, result.clone.body, diff')
    /\ responseCache' = CacheComparison(uiComponents, responseCache, result, now)
    /\ pcPanel' = "rendered"
    /\ UNCHANGED <<wiring, tokenVars, uiComponents, now, clientVars, startTime,
                   dualError, panelError>>

\* executeSingleMode from the return of the API call on:
\* displayError, or displayResponse and cacheResponseData under siteMode
SingleReturned(result, siteMode) ==
    /\ pcPanel \in {"idle", "rendered", "error"}
    /\ IF ~Falsy(result.error)
       THEN /\ pcPanel' = "error"
            /\ panelError' = <<result.error.s>>
            /\ UNCHANGED responseCache
       ELSE /\ pcPanel' = "rendered"
            /\ responseCache' = CacheIfOk(uiComponents, responseCache, result,
                                          siteMode, now)
            /\ UNCHANGED panelError
    /\ UNCHANGED <<diffVars, wiring, tokenVars, uiComponents, now, clientVars,
                   dualVars>>

NextCache ==
    \/ \E real \in CacheResults : \E clone \in CacheResults :
          ComparisonReturned([real |-> real, clone |-> clone,
                              dualDuration |-> 0])
    \/ \E result \in CacheResults : \E siteMode \in SiteModes :
          SingleReturned(result, siteMode)
    \/ Tick

SpecCache == InitCache /\ [][NextCache]_vars

----------------------------------------------------------------------------
(* Properties of comparison mode, under SpecDual.                          *)

Settled(side) == outcome[side].state # "pending"

\* a step of the call of `side` alone
CallStep(side) ==
    \/ side = "real" /\ (TokenArrives \/ TokenFails)
    \/ FetchFails(side)
    \/ TextResolves(side)
    \/ TextFails(side)
    \/ InjectedRejects(side)

(* C8. Concurrency join: both executeRequest calls are issued before       *)
(* either is awaited, neither waits for the other, executeDual completes   *)
(* (returns or throws) only after both calls have settled, and the         *)
(* DualResult holds the real client's result as real and the clone         *)
(* client's as clone.                                                      *)
Claim_C8_Join ==
    /\ pcDual # "idle" => \A side \in Sides : call[side] # "idle"
    /\ (pcDual = "awaiting" /\ ~MicrotaskPending)
           => \A side \in Sides : ~Settled(side) => ENABLED CallStep(side)
    /\ pcDual \in {"returned", "thrown"} => \A side \in Sides : Settled(side)
    /\ pcDual = "returned"
           => /\ dualResult.real = outcome["real"].value
              /\ dualResult.clone = outcome["clone"].value

(* C9. Per-backend failure isolation: with the two Gmail clients, a        *)
(* failure inside a client (token, network, parse) becomes the result      *)
(* {status: null, body: null, error: message} of that side only; no        *)
(* promise is rejected, executeDual does not throw and returns once both   *)
(* calls have settled, no request is issued twice, and each slot of the    *)
(* DualResult is what that side's client returned.                         *)
Thm_C9_FailureIsolation ==
    wiring = "gmail" =>
        /\ \A side \in Sides :
              /\ outcome[side].state # "rejected"
              /\ call[side] = "caught"
                    => /\ outcome[side].state = "fulfilled"
                       /\ outcome[side].value.status = Null
                       /\ outcome[side].value.body = Null
                       /\ outcome[side].value.error.k = "string"
              /\ call[side] = "returned"
                    => /\ outcome[side].state = "fulfilled"
                       /\ outcome[side].value.error = Null
                       /\ outcome[side].value.status.k = "number"
              /\ call[side] \in {"caught", "returned"} => ~ENABLED CallStep(side)
              /\ fetches[side] <= 1
        /\ pcDual # "thrown"
        /\ (pcDual = "awaiting" /\ \A side \in Sides : Settled(side))
              => ENABLED DualReturns
        /\ pcDual = "returned"
              => /\ dualResult.real = outcome["real"].value
                 /\ dualResult.clone = outcome["clone"].value

Wit_C9_FailureIsolation ==
    /\ wiring = "gmail"
    /\ pcDual = "returned"
    /\ call = [real |-> "caught", clone |-> "returned"]
    /\ dualResult.real.error = Str("No token")
    /\ dualResult.clone.status = Num(200)
    /\ dualResult.clone.body = Obj(<<KV(KeyA, Num(1))>>)

(* C10. Error propagation through the diff: in comparison mode, when       *)
(* exactly one call failed (error set, body null) and the other returned   *)
(* a body, the diff is exactly one record at '<root>' of type              *)
(* missing_response with hasDifferences = true, whose real and clone are   *)
(* the two bodies as given.                                                *)
Claim_C10_ErrorPropagation ==
    (/\ pcPanel = "rendered"
     /\ \E side \in Sides :
           /\ dualResult[side].error # Null
           /\ dualResult[side].body = Null
           /\ dualResult[Other(side)].error = Null
           /\ dualResult[Other(side)].body # Null)
        => /\ diff.hasDifferences
           /\ Len(diff.details) = 1
           /\ diff.details[1].path = RootPath
           /\ diff.details[1].type = "missing_response"
           /\ diff.details[1].real = dualResult.real.body
           /\ diff.details[1].clone = dualResult.clone.body

(* C11. Orchestration failure: when a client's executeRequest promise is   *)
(* rejected, executeDual throws an Error whose message is 'Dual execution  *)
(* failed: ' followed by the message of that rejection, returns no         *)
(* DualResult, and executeComparisonMode displays that message and renders *)
(* no comparison.                                                          *)
Thm_C11_OrchestrationFailure ==
    /\ (pcDual = "awaiting" /\ \E side \in Sides : outcome[side].state = "rejected")
           => ENABLED DualThrows /\ ~ENABLED DualReturns
    /\ (pcDual # "awaiting" /\ \E side \in Sides : outcome[side].state = "rejected")
           => /\ pcDual = "thrown"
              /\ Len(dualError) = 2
              /\ dualError[1] = "Dual execution failed: "
              /\ \E side \in Sides :
                    /\ outcome[side].state = "rejected"
                    /\ dualError[2] = outcome[side].reason
              /\ dualResult = NoDualResult
    /\ pcDual = "thrown"
           => /\ \E side \in Sides : outcome[side].state = "rejected"
              /\ pcPanel \in {"awaitDual", "error"}
              /\ pcPanel = "awaitDual" => ENABLED ComparisonCatch
              /\ pcPanel = "error" => panelError = dualError
              /\ diff = NoResult

Wit_C11_OrchestrationFailure ==
    /\ pcPanel = "error"
    /\ pcDual = "thrown"
    /\ outcome["clone"].state = "rejected"
    /\ outcome["real"].state = "fulfilled"
    /\ panelError = <<"Dual execution failed: ", "clone down">>

----------------------------------------------------------------------------
(* Properties of the renderer.                                             *)

\* the spans of one side's highlighted JSON that were looked up under path
SpansAt(side, path) ==
    {k \in 1..Len(view[side]) : view[side][k].path = path}

\* the class the exact-path rule gives a record of this type on this side
ExactClass(type, side) ==
    CASE type \in {"type_mismatch", "value_mismatch", "array_length_mismatch"}
             -> "diff-mismatch"
      [] type = "missing_in_real"
             -> IF side = "clone" THEN "diff-mismatch" ELSE ""
      [] type = "missing_in_clone"
             -> IF side = "real" THEN "diff-mismatch" ELSE ""

(* C12. Exact-path classification: for a record of diff.details at a path, *)
(* getDiffClassForPath gives 'diff-mismatch' on both sides for a           *)
(* type_mismatch, value_mismatch or array_length_mismatch record, on the   *)
(* clone side only for missing_in_real and on the real side only for       *)
(* missing_in_clone (the other side gets no class); every span rendered    *)
(* under that path carries that class, and the side whose tree lacks the   *)
(* path renders no span under it.                                          *)
Thm_C12_ExactPathClass ==
    view.rendered =>
        \A i \in 1..Len(diff.details) :
            LET d == diff.details[i]
            IN  d.type # "missing_response" =>
                    /\ \A side \in Sides :
                          /\ getDiffClassForPath(diff, d.path, side)
                                 = ExactClass(d.type, side)
                          /\ \A k \in SpansAt(side, d.path) :
                                view[side][k].class = ExactClass(d.type, side)
                    /\ d.type = "missing_in_real" => SpansAt("real", d.path) = {}
                    /\ d.type = "missing_in_clone" => SpansAt("clone", d.path) = {}

Wit_C12_ExactPathClass ==
    /\ view.rendered
    /\ \E i \in 1..Len(diff.details) :
          /\ diff.details[i].type = "missing_in_clone"
          /\ diff.details[i].path = KeyA
          /\ \E k \in SpansAt("real", KeyA) : view["real"][k].class = "diff-mismatch"
    /\ \E i \in 1..Len(diff.details) :
          /\ diff.details[i].type = "value_mismatch"
          /\ SpansAt("real", diff.details[i].path) # {}
          /\ SpansAt("clone", diff.details[i].path) # {}

----------------------------------------------------------------------------
(* Further properties of generateDiff, under SpecDiff.                     *)

(* C13. DiffResult consistency: whatever generateDiff returns, by either   *)
(* early return or after the recursive comparison, has hasDifferences =    *)
(* (details.length > 0), summary.count = details.length, and summary.paths *)
(* equal to the paths of details in the same order.                        *)
Thm_C13_DiffResultConsistent ==
    Done =>
        /\ diff.hasDifferences = (Len(diff.details) > 0)
        /\ diff.summary.count = Len(diff.details)
        /\ Len(diff.summary.paths) = Len(diff.details)
        /\ \A i \in 1..Len(diff.details) :
              diff.summary.paths[i] = diff.details[i].path

Wit_C13_DiffResultConsistent ==
    /\ Done
    /\ ~Falsy(realResponse)
    /\ ~Falsy(cloneResponse)
    /\ Len(diff.details) = 2
    /\ diff.details[1].path # diff.details[2].path
    /\ diff.summary.paths = <<diff.details[1].path, diff.details[2].path>>

(* C14. Severity rule: in every record generateDiff produces, severity is  *)
(* 'high' for a type_mismatch, a value_mismatch and every record at the    *)
(* root path (missing_response included), 'medium' for a missing_in_real,  *)
(* missing_in_clone or array_length_mismatch record, all of which lie      *)
(* below the root path, and never 'low'.                                   *)
Thm_C14_SeverityRule ==
    Done =>
        \A i \in 1..Len(diff.details) :
            LET d == diff.details[i]
            IN  /\ d.severity \in {"high", "medium"}
                /\ d.type \in {"type_mismatch", "value_mismatch"}
                       => d.severity = "high"
                /\ d.path = RootPath => d.severity = "high"
                /\ d.type = "missing_response"
                       => d.path = RootPath /\ d.severity = "high"
                /\ d.type \in {"missing_in_real", "missing_in_clone",
                               "array_length_mismatch"}
                       => d.path # RootPath /\ d.severity = "medium"

Wit_C14_SeverityRule ==
    /\ Done
    /\ \E i, j, k \in 1..Len(diff.details) :
          /\ diff.details[i].type = "array_length_mismatch"
          /\ diff.details[i].severity = "medium"
          /\ diff.details[j].type = "missing_in_clone"
          /\ diff.details[j].severity = "medium"
          /\ diff.details[k].type = "value_mismatch"
          /\ diff.details[k].severity = "high"

----------------------------------------------------------------------------
(* Properties of the summary, under SpecSummary.                           *)

SeverityRank(severity) ==
    CASE severity = "high" -> 1
      [] severity = "medium" -> 2
      [] severity = "low" -> 3

\* the list item is the one written for the record
Lists(item, d) == item.path = d.path /\ item.message = formatDiffMessage(d)

\* the ways to assign each list item one record, each record to one item
Assignments(n) ==
    {f \in [1..n -> 1..n] : \A k, l \in 1..n : k # l => f[k] # f[l]}

(* C15. Summary ordering: when the diff has differences the summary lists  *)
(* every record of diff.details exactly once, all high records before all  *)
(* medium records before all low records, and the records of one severity  *)
(* in their order in diff.details; when the diff has no differences the    *)
(* summary states 'Responses Match' and lists nothing.                     *)
Thm_C15_SummaryOrdering ==
    view.rendered =>
        LET items == view.summary.items
            details == diff.details
        IN  IF diff.hasDifferences
            THEN /\ Len(items) = Len(details)
                 /\ \E f \in Assignments(Len(details)) :
                       /\ \A k \in 1..Len(items) : Lists(items[k], details[f[k]])
                       /\ \A k, l \in 1..Len(items) :
                             k < l =>
                                LET rk == SeverityRank(details[f[k]].severity)
                                    rl == SeverityRank(details[f[l]].severity)
                                IN  rk < rl \/ (rk = rl /\ f[k] < f[l])
            ELSE /\ view.summary.statusText = ResponsesMatch
                 /\ items = <<>>

Wit_C15_SummaryOrdering ==
    /\ view.rendered
    /\ Len(diff.details) = 3
    /\ diff.details[1].severity = "low"
    /\ diff.details[2].severity = "medium"
    /\ diff.details[3].severity = "high"
    /\ diff.details[1].path = KeyA
    /\ diff.details[3].path = ID
    /\ Len(view.summary.items) = 3
    /\ view.summary.items[1].path = ID
    /\ view.summary.items[3].path = KeyA

----------------------------------------------------------------------------
(* Further properties of comparison mode, under SpecDual.                  *)

\* the result has error set only with status and body null, error null
\* whenever status is set, and exactly one of {status and body}, {error} set
ResultInvariant(result) ==
    /\ result.error # Null => result.status = Null /\ result.body = Null
    /\ result.status # Null => result.error = Null
    /\ (result.status # Null /\ result.body # Null) # (result.error # Null)

(* C16. DualResult per-side invariant: every result a client's             *)
(* executeRequest returns, and so every slot of a DualResult, has error    *)
(* non-null only if status and body are null, error null whenever status   *)
(* is non-null, and exactly one of {status and body} or {error} populated. *)
Claim_C16_ResultInvariant ==
    /\ \A side \in Sides :
          outcome[side].state = "fulfilled" => ResultInvariant(outcome[side].value)
    /\ pcDual = "returned"
          => ResultInvariant(dualResult.real) /\ ResultInvariant(dualResult.clone)

----------------------------------------------------------------------------
(* Properties of the token manager, under SpecToken.                       *)

\* a token and an expiry were read from storage, and the expiry is more
\* than 5 minutes (300000 ms) after the time of the check
StoredAndFresh(r) ==
    /\ stored[r].token # 0
    /\ stored[r].expiry # 0
    /\ stored[r].expiry > checkedAt[r] + 300000

\* the seconds a refresh response grants: expires_in, 3600 if absent
GrantedSeconds(r) ==
    IF grant[r].hasExpiresIn THEN grant[r].expires_in ELSE 3600

Refreshing(r) == pcToken[r] \in {"fetch", "errorText", "json", "set"}

Answered(r) == answer[r].via # "none"

(* C17. Token cache with 5-minute buffer: a request returns the token it   *)
(* read from storage, without refreshing, if and only if a token and an    *)
(* expiry are stored and the expiry is more than 5 minutes after the       *)
(* current time; otherwise it refreshes, and a refresh that succeeds       *)
(* stores the new token with expiry = now + expires_in seconds (3600 if    *)
(* absent) and returns the new token; a stored token whose expiry is       *)
(* within 5 minutes or past is never returned.                             *)
Thm_C17_TokenCache ==
    \A r \in Requests :
        /\ Refreshing(r) => ~StoredAndFresh(r) /\ ~Answered(r)
        /\ answer[r].via = "cache"
              => /\ StoredAndFresh(r)
                 /\ answer[r].token = stored[r].token
                 /\ grant[r] = NoGrant
                 /\ stored[r].expiry - checkedAt[r] > 5 * 60 * 1000
        /\ answer[r].via \in {"refresh", "error"} => ~StoredAndFresh(r)
        /\ answer[r].via = "refresh"
              => /\ answer[r].token = grant[r].access_token
                 /\ answer[r].token # stored[r].token
                 /\ storage.token # 0
                 /\ storage.token = answer[r].token
                       => storage.expiry
                              = computedAt[r] + GrantedSeconds(r) * 1000

Wit_C17_TokenCache ==
    /\ answer[1].via = "refresh"
    /\ storage.token = answer[1].token
    /\ ~grant[1].hasExpiresIn
    /\ stored[1].token # 0
    /\ stored[1].expiry = checkedAt[1] + 300000
    /\ answer[2].via = "cache"
    /\ answer[2].token = answer[1].token
    /\ checkedAt[2] > computedAt[1]

----------------------------------------------------------------------------
(* Properties of the recursive comparison, under SpecDiff.                 *)

\* what is expected of a record: its path, type and two values
Expected(path, type, real, clone) ==
    [path |-> path, type |-> type, real |-> real, clone |-> clone]

\* the record of the diff at position i is the expected one, of this severity
IsRecord(i, e, severity) ==
    /\ diff.details[i].path = e.path
    /\ diff.details[i].type = e.type
    /\ diff.details[i].real = e.real
    /\ diff.details[i].clone = e.clone
    /\ diff.details[i].severity = severity

\* the keys, not ignored, that one of two compared objects has and the
\* other lacks, wherever in the two documents objects are compared with
\* one another
RECURSIVE MissingKeys(_, _, _, _)
MissingKeys(a, b, path, ignore) ==
    IF a.k = "object" /\ b.k = "object"
    THEN UNION {
           LET keyPath == KeyPath(path, key)
           IN  IF ListIgnores(ignore, keyPath, key) THEN {}
               ELSE IF key \notin KeySet(a)
               THEN {Expected(keyPath, "missing_in_real", Undefined, Get(b, key))}
               ELSE IF key \notin KeySet(b)
               THEN {Expected(keyPath, "missing_in_clone", Get(a, key), Undefined)}
               ELSE MissingKeys(Get(a, key), Get(b, key), keyPath, ignore) :
           key \in KeySet(a) \cup KeySet(b)}
    ELSE IF a.k = "array" /\ b.k = "array"
    THEN UNION {MissingKeys(At(a, i), At(b, i), ElementPath(path, i), ignore) :
                   i \in 0..(Min(Length(a), Length(b)) - 1)}
    ELSE {}

RECURSIVE ArrayPairs(_, _, _, _)
ArrayPairs(a, b, path, ignore) ==
    IF a.k = "array" /\ b.k = "array"
    THEN {[real |-> a, clone |-> b, path |-> path]}
         \cup UNION {ArrayPairs(At(a, i), At(b, i), ElementPath(path, i), ignore) :
                        i \in 0..(Min(Length(a), Length(b)) - 1)}
    ELSE IF a.k = "object" /\ b.k = "object"
    THEN UNION {
           IF ListIgnores(ignore, KeyPath(path, key), key) THEN {}
           ELSE ArrayPairs(Get(a, key), Get(b, key), KeyPath(path, key), ignore) :
           key \in KeySet(a) \cap KeySet(b)}
    ELSE {}

\* the records at the path or below it
RecordsAtOrBelow(path) ==
    {i \in 1..Len(diff.details) :
        diff.details[i].path = path \/ IsBelow(path, diff.details[i].path)}

(* C19. Array comparison: for two compared arrays at path p of lengths m   *)
(* (real) and n (clone): exactly one array_length_mismatch record at       *)
(* p + '.length' with real = m, clone = n, severity medium when m # n and  *)
(* none when m = n; every index below min(m, n) is still compared at p[i]  *)
(* (records at or below p[i] exactly when the two elements differ outside  *)
(* ignored keys); every index i with m <= i < n yields exactly one         *)
(* missing_in_real record at p[i], every index with n <= i < m exactly one *)
(* missing_in_clone record.                                                *)
Thm_C19_ArrayComparison ==
    Done =>
        \A pair \in ArrayPairs(realResponse, cloneResponse, <<>>, ignoreFields) :
            LET m == Len(pair.real.c)
                n == Len(pair.clone.c)
                lengthPath == pair.path \o <<".", "l", "e", "n", "g", "t", "h">>
                p(i) == pair.path \o <<"[">> \o IntToString(i) \o <<"]">>
            IN  /\ IF m # n
                   THEN /\ Cardinality(RecordsAt(diff, lengthPath)) = 1
                        /\ \A i \in RecordsAt(diff, lengthPath) :
                              IsRecord(i, Expected(lengthPath,
                                                   "array_length_mismatch",
                                                   Num(m), Num(n)), "medium")
                   ELSE RecordsAt(diff, lengthPath) = {}
                /\ \A i \in 0..(Min(m, n) - 1) :
                      (RecordsAtOrBelow(p(i)) # {})
                          = ~DeepEqual(Strip(pair.real.c[i + 1].val, p(i),
                                             ignoreFields),
                                       Strip(pair.clone.c[i + 1].val, p(i),
                                             ignoreFields))
                /\ \A i \in m..(n - 1) :
                      /\ Cardinality(RecordsAtOrBelow(p(i))) = 1
                      /\ \A j \in RecordsAt(diff, p(i)) :
                            IsRecord(j, Expected(p(i), "missing_in_real", Undefined,
                                                 pair.clone.c[i + 1].val), "medium")
                      /\ RecordsAt(diff, p(i)) # {}
                /\ \A i \in n..(m - 1) :
                      /\ Cardinality(RecordsAtOrBelow(p(i))) = 1
                      /\ \A j \in RecordsAt(diff, p(i)) :
                            IsRecord(j, Expected(p(i), "missing_in_clone",
                                                 pair.real.c[i + 1].val, Undefined),
                                     "medium")
                      /\ RecordsAt(diff, p(i)) # {}

Wit_C19_ArrayComparison ==
    /\ Done
    /\ realResponse = Arr(<<Num(1), Num(2)>>)
    /\ cloneResponse = Arr(<<Num(2)>>)
    /\ Len(diff.details) = 3
    /\ diff.details[1].type = "array_length_mismatch"
    /\ diff.details[1].path = <<".", "l", "e", "n", "g", "t", "h">>
    /\ diff.details[2].type = "value_mismatch"
    /\ diff.details[2].path = <<"[", "0", "]">>
    /\ diff.details[3].type = "missing_in_clone"
    /\ diff.details[3].path = <<"[", "1", "]">>

\* the object keys of a document, each with its full path and its name
RECURSIVE ObjectKeyPaths(_, _)
ObjectKeyPaths(value, path) ==
    IF value.k = "object"
    THEN UNION {LET keyPath == IF path = <<>> THEN value.c[i].key
                               ELSE path \o <<".">> \o value.c[i].key
                IN  {[path |-> keyPath, name |-> value.c[i].key]}
                    \cup ObjectKeyPaths(value.c[i].val, keyPath) :
                i \in 1..Len(value.c)}
    ELSE IF value.k = "array"
    THEN UNION {ObjectKeyPaths(value.c[i].val,
                               path \o <<"[">> \o IntToString(i - 1) \o <<"]">>) :
                i \in 1..Len(value.c)}
    ELSE {}

\* the object keys of the two documents that the ignore list ignores
IgnoredKeys ==
    {key \in ObjectKeyPaths(realResponse, <<>>)
                 \cup ObjectKeyPaths(cloneResponse, <<>>) :
        \/ shouldIgnoreField(key.path, key.name, ignoreFields)
        \/ ListIgnores(ignoreFields, key.path, key.name)}

(* C20. Ignored keys are skipped entirely: no record of generateDiff(a, b, *)
(* L) has a path equal to, or extending, the path of an object key that    *)
(* shouldIgnoreField ignores (its name or its path is in L, or a wildcard  *)
(* entry of L matches its path), whether the key is present on both sides  *)
(* or one, and whatever the kinds of the values under it.                  *)
Thm_C20_IgnoredSkipped ==
    Done => \A key \in IgnoredKeys : RecordsAtOrBelow(key.path) = {}

Wit_C20_IgnoredSkipped ==
    /\ Done
    /\ ignoreFields = <<ID>>
    /\ realResponse = Obj(<<KV(ID, Num(1)), KV(KeyA, Num(1))>>)
    /\ cloneResponse = Obj(<<KV(KeyA, Num(2))>>)
    /\ [path |-> ID, name |-> ID] \in IgnoredKeys
    /\ Len(diff.details) = 1
    /\ diff.details[1].path = KeyA

\* the documents obtained from a value by permuting the key order of any of
\* the objects inside it
RECURSIVE KeyOrders(_)
KeyOrders(value) ==
    IF value.k \in {"object", "array"}
    THEN LET n == Len(value.c)
             orders == IF value.k = "object" THEN Assignments(n)
                       ELSE {[i \in 1..n |-> i]}
             variants == [i \in 1..n |-> KeyOrders(value.c[i].val)]
             choices == {g \in [1..n -> UNION {variants[i] : i \in 1..n}] :
                            \A i \in 1..n : g[i] \in variants[i]}
         IN  {[value EXCEPT !.c = [i \in 1..n |->
                                     KV(value.c[f[i]].key, g[f[i]])]] :
                 f \in orders, g \in choices}
    ELSE {value}

\* two records agree in path, type, severity and (key order aside) values
SameRecord(d, e) ==
    /\ d.path = e.path
    /\ d.type = e.type
    /\ d.severity = e.severity
    /\ DeepEqual(d.real, e.real)
    /\ DeepEqual(d.clone, e.clone)

\* two lists of records hold the same records
SameRecordSet(ds, es) ==
    /\ \A i \in 1..Len(ds) : \E j \in 1..Len(es) : SameRecord(ds[i], es[j])
    /\ \A j \in 1..Len(es) : \E i \in 1..Len(ds) : SameRecord(ds[i], es[j])
    /\ Len(ds) = Len(es)

(* C21. Key-order independence: permuting the key order of any object      *)
(* inside a or b leaves the set of records of generateDiff(a, b, L)        *)
(* unchanged (paths, types, real and clone values, severities); only the   *)
(* order of details may change.                                            *)
Thm_C21_KeyOrderIndependent ==
    Done =>
        \A a \in KeyOrders(realResponse) :
            \A b \in KeyOrders(cloneResponse) :
                SameRecordSet(generateDiff(a, b, ignoreFields).details,
                              diff.details)

Wit_C21_KeyOrderIndependent ==
    /\ Done
    /\ ObjectKeys(realResponse) = <<ID, KeyA>>
    /\ Len(diff.details) = 2
    /\ \E a \in KeyOrders(realResponse) :
          /\ ObjectKeys(a) = <<KeyA, ID>>
          /\ generateDiff(a, cloneResponse, ignoreFields).details
                 = <<diff.details[2], diff.details[1]>>

\* the keys of two objects in union-key order: real's keys in real's order,
\* then the clone's keys that real does not have
UnionKeyOrder(a, b) ==
    [i \in 1..Len(a.c) |-> a.c[i].key]
    \o SelectSeq([i \in 1..Len(b.c) |-> b.c[i].key],
                 LAMBDA key : key \notin KeySet(a))

\* The places of two documents in pre-order: a node, then for two objects
\* their keys in union-key order, for two arrays the length and then the
\* indices in increasing order, each followed by all that lies below it.
RECURSIVE PreOrder(_, _, _)
RECURSIVE PreOrderKeys(_, _, _, _)
RECURSIVE PreOrderIndices(_, _, _, _)

PreOrderKeys(a, b, path, keys) ==
    IF keys = <<>> THEN <<>>
    ELSE LET key == Head(keys)
             keyPath == IF path = <<>> THEN key ELSE path \o <<".">> \o key
         IN  (IF key \in KeySet(a) /\ key \in KeySet(b)
              THEN PreOrder(Get(a, key), Get(b, key), keyPath)
              ELSE <<keyPath>>)
             \o PreOrderKeys(a, b, path, Tail(keys))

PreOrderIndices(a, b, path, i) ==
    IF i >= Len(a.c) /\ i >= Len(b.c) THEN <<>>
    ELSE LET indexPath == path \o <<"[">> \o IntToString(i) \o <<"]">>
         IN  (IF i < Len(a.c) /\ i < Len(b.c)
              THEN PreOrder(a.c[i + 1].val, b.c[i + 1].val, indexPath)
              ELSE <<indexPath>>)
             \o PreOrderIndices(a, b, path, i + 1)

PreOrder(a, b, path) ==
    <<IF path = <<>> THEN <<"<", "r", "o", "o", "t", ">">> ELSE path>>
    \o (IF a.k = "object" /\ b.k = "object"
        THEN PreOrderKeys(a, b, path, UnionKeyOrder(a, b))
        ELSE IF a.k = "array" /\ b.k = "array"
        THEN <<path \o <<".", "l", "e", "n", "g", "t", "h">>>>
             \o PreOrderIndices(a, b, path, 0)
        ELSE <<>>)

\* the positions of a path in a list of places
PositionsOf(places, path) == {k \in 1..Len(places) : places[k] = path}

(* C22. Pre-order ordering of details: the records of generateDiff appear  *)
(* in pre-order: under an object in union-key order (real's keys in real's *)
(* order, then the clone's keys real does not have) with the records of    *)
(* one key's subtree contiguous, under an array the array_length_mismatch  *)
(* record before all element records and the elements' records by          *)
(* increasing index.                                                       *)
Thm_C22_PreOrder ==
    Done =>
        LET places == PreOrder(realResponse, cloneResponse, <<>>)
        IN  /\ \A i \in 1..Len(diff.details) :
                  Cardinality(PositionsOf(places, diff.details[i].path)) = 1
            /\ \A i, j \in 1..Len(diff.details) :
                  i < j =>
                     \A k \in PositionsOf(places, diff.details[i].path) :
                        \A l \in PositionsOf(places, diff.details[j].path) :
                           k < l

Wit_C22_PreOrder ==
    /\ Done
    /\ realResponse = UserIds("1", "10", "2")
    /\ cloneResponse = UserIds("99", "88", "77")
    /\ Len(diff.details) = 3
    /\ diff.details[1].path = KeyUser \o <<".">> \o ID
    /\ diff.details[2].path = KeyUser \o <<".">> \o KeyProfile \o <<".">> \o ID
    /\ diff.details[3].path = KeyItem \o <<".">> \o ID

----------------------------------------------------------------------------
(* Further properties of the renderer, under SpecDiff.                     *)

\* the identifiers ignored by convention
ConventionalIds ==
    {<<"i", "d">>,
     <<"l", "a", "b", "e", "l", "I", "d">>,
     <<"t", "h", "r", "e", "a", "d", "I", "d">>,
     <<"m", "e", "s", "s", "a", "g", "e", "I", "d">>,
     <<"h", "i", "s", "t", "o", "r", "y", "I", "d">>,
     <<"i", "n", "t", "e", "r", "n", "a", "l", "D", "a", "t", "e">>,
     <<"s", "i", "z", "e", "E", "s", "t", "i", "m", "a", "t", "e">>}

\* the positions of a character in a path
Occurrences(path, ch) == {k \in 1..Len(path) : path[k] = ch}

LastOf(S) == CHOOSE k \in S : \A l \in S : l <= k

\* the path with its last '.key' or '[i]' segment removed
ImmediateParent(path) ==
    IF path # <<>> /\ path[Len(path)] = "]"
    THEN SubSeq(path, 1, LastOf(Occurrences(path, "[")) - 1)
    ELSE IF Occurrences(path, ".") # {}
    THEN SubSeq(path, 1, LastOf(Occurrences(path, ".")) - 1)
    ELSE <<>>

\* the name of the last key on the path
RECURSIVE LastFieldName(_)
LastFieldName(path) ==
    IF path # <<>> /\ path[Len(path)] = "]"
    THEN LastFieldName(ImmediateParent(path))
    ELSE IF Occurrences(path, ".") # {}
    THEN SubSeq(path, LastOf(Occurrences(path, ".")) + 1, Len(path))
    ELSE path

\* the diff has a record of this type at this path
HasRecord(path, type) ==
    \E i \in 1..Len(diff.details) :
        diff.details[i].path = path /\ diff.details[i].type = type

(* C23. Parent taint: a rendered node at a non-empty path with no record   *)
(* at that path, whose last field name is not a conventionally ignored     *)
(* identifier, is classified 'diff-mismatch' on both sides when the diff   *)
(* has a type_mismatch record at the path's immediate parent (the path     *)
(* without its last '.key' or '[i]' segment) or at '<root>'.               *)
Claim_C23_ParentTaint ==
    view.rendered =>
        \A side \in Sides :
            \A k \in 1..Len(view[side]) :
                LET path == view[side][k].path
                IN  (/\ path # <<>>
                     /\ RecordsAt(diff, path) = {}
                     /\ LastFieldName(path) \notin ConventionalIds
                     /\ \/ HasRecord(ImmediateParent(path), "type_mismatch")
                        \/ HasRecord(RootPath, "type_mismatch"))
                        => view[side][k].class = "diff-mismatch"

\* the paths of the nodes of a document below its root: the keys of its
\* objects and the elements of its arrays
RECURSIVE NodePaths(_, _)
NodePaths(value, path) ==
    IF value.k = "object"
    THEN UNION {LET keyPath == IF path = <<>> THEN value.c[i].key
                               ELSE path \o <<".">> \o value.c[i].key
                IN  {keyPath} \cup NodePaths(value.c[i].val, keyPath) :
                i \in 1..Len(value.c)}
    ELSE IF value.k = "array"
    THEN UNION {LET itemPath == path \o <<"[">> \o IntToString(i - 1) \o <<"]">>
                IN  {itemPath} \cup NodePaths(value.c[i].val, itemPath) :
                i \in 1..Len(value.c)}
    ELSE {}

\* the node is on both sides
OnBothSides(path) ==
    /\ path \in NodePaths(realResponse, <<>>)
    /\ path \in NodePaths(cloneResponse, <<>>)

\* the node is below the path of a record, where the engine compared nothing
InsideUncompared(path) ==
    \E i \in 1..Len(diff.details) : IsBelow(diff.details[i].path, path)

\* the spans of one side that carry a class
SpansOfClass(side, class) ==
    {k \in 1..Len(view[side]) : view[side][k].class = class}

(* C24. Meaning of 'match': with the diff of the two bodies under the      *)
(* default ignore list, a node the renderer tags 'diff-match' on either    *)
(* side is on both sides, has no recorded difference at or below its path  *)
(* (it is no ancestor of a recorded difference), and is not inside a       *)
(* subtree the engine did not compare.                                     *)
Claim_C24_MatchMeaning ==
    (view.rendered /\ ignoreFields = DEFAULT_IGNORE_FIELDS) =>
        \A side \in Sides :
            \A k \in SpansOfClass(side, "diff-match") :
                LET path == view[side][k].path
                IN  /\ OnBothSides(path)
                    /\ RecordsAtOrBelow(path) = {}
                    /\ ~InsideUncompared(path)

(* C25. Completeness: when generateDiff(a, b, []) reports no difference    *)
(* (hasDifferences = FALSE), a and b are deeply equal, falsy roots (0,     *)
(* false, '', null) included; two absent responses (null or undefined)     *)
(* count as equal.                                                         *)
Claim_C25_Completeness ==
    (Done /\ ignoreFields = <<>> /\ ~diff.hasDifferences)
        => \/ DeepEqual(realResponse, cloneResponse)
           \/ Absent(realResponse) /\ Absent(cloneResponse)

\* A wildcard entry read literally: '*' stands for any string, every other
\* character, '.' included, for itself, the whole path matched.
RECURSIVE LiteralWildMatch(_, _)
LiteralWildMatch(pattern, str) ==
    IF pattern = <<>> THEN str = <<>>
    ELSE IF Head(pattern) = "*"
    THEN \E n \in 0..Len(str) :
            LiteralWildMatch(Tail(pattern), SubSeq(str, n + 1, Len(str)))
    ELSE /\ str # <<>>
         /\ Head(pattern) = Head(str)
         /\ LiteralWildMatch(Tail(pattern), Tail(str))

\* the object keys of the two documents
BothKeyPaths ==
    ObjectKeyPaths(realResponse, <<>>) \cup ObjectKeyPaths(cloneResponse, <<>>)

(* C26. Wildcard patterns do not over-match: shouldIgnoreField ignores a   *)
(* key that is neither named nor addressed by an entry of the list only if *)
(* its full path is a wildcard entry with each '*' replaced by some string *)
(* and every other character, '.' included, matched literally; so with the *)
(* list ['*.id'] a difference in a field named 'valid' is reported.        *)
Claim_C26_NoOverMatch ==
    Done =>
        /\ \A key \in BothKeyPaths :
              shouldIgnoreField(key.path, key.name, ignoreFields)
                  => \/ \E i \in 1..Len(ignoreFields) :
                            ignoreFields[i] \in {key.name, key.path}
                     \/ \E i \in 1..Len(ignoreFields) :
                            /\ \E j \in 1..Len(ignoreFields[i]) :
                                   ignoreFields[i][j] = "*"
                            /\ LiteralWildMatch(ignoreFields[i], key.path)
        /\ (/\ ignoreFields = <<StarDotId>>
            /\ realResponse = Valid(Num(1))
            /\ cloneResponse = Valid(Num(2)))
               => diff.hasDifferences

\* the object keys of the two documents that the default ignore set names
DefaultIgnoredKeys == {key \in BothKeyPaths : key.name \in ConventionalIds}

\* the engine compared nothing at the path because of the default ignore
\* set: the path is that of a key of the set, or below one
SkippedByDefault(path) ==
    \E key \in DefaultIgnoredKeys : key.path = path \/ IsBelow(key.path, path)

(* C27. Renderer and engine agree on what is ignored: under the default    *)
(* ignore list, a rendered path without a record of its own is tagged      *)
(* 'diff-ignored' only where the engine skipped it because of the default  *)
(* ignore set, and every rendered key that the set names is tagged         *)
(* 'diff-ignored' (never 'diff-match', 'diff-mismatch' or nothing).        *)
Claim_C27_IgnoredAgree ==
    (view.rendered /\ ignoreFields = DEFAULT_IGNORE_FIELDS) =>
        \A side \in Sides :
            \A k \in 1..Len(view[side]) :
                LET path == view[side][k].path
                IN  RecordsAt(diff, path) = {} =>
                        /\ view[side][k].class = "diff-ignored"
                               => SkippedByDefault(path)
                        /\ (\E key \in DefaultIgnoredKeys : key.path = path)
                               => view[side][k].class = "diff-ignored"

\* the records of the diff that report two values of different type or value
MismatchRecords ==
    {i \in 1..Len(diff.details) :
        diff.details[i].type \in {"type_mismatch", "value_mismatch"}}

\* the path under which the walk from '' renders the node of a record
LocationOf(record) == IF record.path = RootPath THEN <<>> ELSE record.path

(* C28. Every recorded type or value mismatch is highlighted: for every    *)
(* type_mismatch or value_mismatch record of the diff, the spans the walk  *)
(* from path '' renders for the node at the record's location carry        *)
(* 'diff-mismatch' on both sides, a record at the document root ('<root>') *)
(* included.                                                               *)
Claim_C28_MismatchHighlighted ==
    view.rendered =>
        \A i \in MismatchRecords :
            \A side \in Sides :
                \A k \in SpansAt(side, LocationOf(diff.details[i])) :
                    view[side][k].class = "diff-mismatch"

----------------------------------------------------------------------------
(* Further properties of comparison mode, under SpecDual.                  *)

\* the call of this side failed
CallFailed(side) == dualResult[side].error # Null

(* C29. A failed call is never reported as a match: in comparison mode,    *)
(* when at least one backend call failed (its error is set), both failed   *)
(* included, the diff has hasDifferences = TRUE and the summary does not   *)
(* state 'Responses Match'.                                                *)
Claim_C29_FailureNotMatch ==
    (pcPanel = "rendered" /\ \E side \in Sides : CallFailed(side))
        => /\ diff.hasDifferences
           /\ view.summary.statusText # ResponsesMatch

----------------------------------------------------------------------------
(* Properties of the response cache, under SpecCache.                      *)

\* the result was cached: its status is a success and its body is set
WasCached(result) == StatusOk(result.status) /\ ~Falsy(result.body)

\* what the cache holds for a mode after the step, and before it
CachedAfter(resourceType, mode) ==
    Cached(uiComponents', responseCache', resourceType, mode)

CachedBefore(resourceType, mode) ==
    Cached(uiComponents, responseCache, resourceType, mode)

\* after comparison mode cached the two responses, each mode holds the
\* lists of its own response and, for the rest, what it held before
OwnListsCached(result) ==
    \A side \in Sides :
        \A resourceType \in ResourceTypes :
            LET list == Prop(result[side].body, KeyOf(resourceType))
            IN  CachedAfter(resourceType, side)
                    = IF WasCached(result[side]) /\ ~Falsy(list)
                      THEN list
                      ELSE CachedBefore(resourceType, side)

\* a call for one mode leaves the entries of the other mode alone
OtherModeKept(mode) ==
    \A resourceType \in ResourceTypes :
        CachedAfter(resourceType, Other(mode))
            = CachedBefore(resourceType, Other(mode))

(* C30. Separate response caches per backend: after comparison mode has    *)
(* cached the real response for 'real' and the clone response for 'clone', *)
(* the labels, threads, messages and drafts cached for each mode are those *)
(* of that mode's own response, unchanged by the caching of the other; and *)
(* a cacheResponseData call for one mode never changes what is cached for  *)
(* the other mode.                                                         *)
Claim_C30_SeparateCaches ==
    [][/\ \A real \in CacheResults : \A clone \in CacheResults :
              LET result == [real |-> real, clone |-> clone, dualDuration |-> 0]
              IN  ComparisonReturned(result) => OwnListsCached(result)
       /\ \A result \in CacheResults : \A mode \in Sides :
              SingleReturned(result, mode) => OtherModeKept(mode)]_vars

====
